---- MODULE Spec2Model ----
(***************************************************************************)
(* Model of the asset-pipeline scripts of organicfreshcoffee/landing.       *)
(*                                                                         *)
(* Part 1: create_walk_animation.py, the walk-cycle keyframe synthesizer.   *)
(* Python floats are modelled as fixed-point integers with Scale units to   *)
(* 1.0 (so 0.4 is 400); angles handed to math.sin/math.cos are kept as a    *)
(* multiple x of pi/Scale, and rotations are in milliradians.               *)
(***************************************************************************)
EXTENDS Integers, Sequences, FiniteSets, TLC

VARIABLES
    pc,               \* position in create_walking_animation
    pose_bones,       \* names of armature_obj.pose.bones (the loaded skeleton)
    pose,             \* bone name -> current transform of that pose bone
    prefs,            \* the host tool's default interpolation for new keyframes
    scene,            \* scene.frame_start / frame_end / fps / frame_current
    roleBone,         \* role -> resolved bone (hips_bone, chest_bone, ...)
    available_bones,  \* the list built at lines 106-112
    i,                \* index into walk_frames
    j,                \* index into available_bones
    cycle_pos,        \* phase of the current sample frame
    keys,             \* keyframe points of the WalkCycle action, in insertion order
    printed,          \* <<frame, cycle_pos>> of every "Setting keyframe" line
    ret,              \* value returned by create_walking_animation
    armature_obj,     \* the armature found in the scene, or None
    result,           \* result set of bpy.ops.export_scene.gltf
    arg,              \* input of the pure-function specifications
    out,              \* result of the pure-function specifications
    script,           \* the script of the other families that is running
    inputs,           \* what that run finds on disk and on its command line
    fidx,             \* index of the input file being processed
    loc,              \* local variables of the running function
    written,          \* the files written so far, in order
    stdout,           \* the messages printed so far, in order
    attempts          \* the open / load / import / export calls made so far

vars == <<pc, pose_bones, pose, prefs, scene, roleBone, available_bones, i, j,
          cycle_pos, keys, printed, ret, armature_obj, result, arg, out,
          script, inputs, fidx, loc, written, stdout, attempts>>

\* the state of the image and converter scripts
ioVars == <<script, inputs, fidx, loc, written, stdout, attempts>>

----------------------------------------------------------------------------
(* Bounds of the explored inputs *)

\* skeletons with at most this many bones are explored, besides the complete ones
MaxPresent == 1
\* longest alternatives list handed to find_bone in SpecFind
MaxAlternatives == 2
\* the largest width and height of the small images that are sliced
MaxDim == 13
\* the largest number of files in a directory that is processed
MaxFiles == 2
\* the largest number of actions in a .blend file that is converted
MaxActions == 2

----------------------------------------------------------------------------
(* Fixed-point arithmetic standing for Python floats and the math module *)

Scale == 1000

None == "None"

Max(a, b) == IF a >= b THEN a ELSE b

\* a * b for fixed-point a, b
Mul(a, b) == (a * b) \div Scale

\* a / b for fixed-point a, b
Div(a, b) == (a * Scale) \div b

\* math.radians: millidegrees to milliradians (pi/180 = 0.017453)
Radians(mdeg) == (mdeg * 17453) \div 1000000

\* math.sin(x * math.pi) for fixed-point x (Bhaskara's rational approximation
\* on a half turn, odd and periodic beyond it)
SinPi(x) ==
    LET r == x % (2 * Scale)
        h == IF r <= Scale THEN r ELSE r - Scale
        y == h * (Scale - h)
        v == (4000 * y) \div (1250000 - y)
    IN IF r <= Scale THEN v ELSE 0 - v

\* math.cos(x * math.pi)
CosPi(x) == SinPi(x + Scale \div 2)

----------------------------------------------------------------------------
(* Bone-role resolution, lines 63-116 *)

Roles == <<"Hips", "Chest", "Left Foot", "Right Foot", "Left Leg", "Right Leg",
           "Left Hand", "Right Hand", "Left Arm", "Right Arm">>

RoleSet == {Roles[k] : k \in 1..Len(Roles)}

\* [bone_name] + alternatives of the find_bone call of each role
RoleNames(role) ==
    CASE role = "Hips"       -> <<"CONTROL_HIPS", "PELVIS", "PIV_HIPS">>
      [] role = "Chest"      -> <<"CONTROL_CHEST", "STERNUM">>
      [] role = "Left Foot"  -> <<"CONTROL_FOOT.L", "FOOT.L">>
      [] role = "Right Foot" -> <<"CONTROL_FOOT.R", "FOOT.R">>
      [] role = "Left Leg"   -> <<"FEMUR.L", "MCH_femur.L">>
      [] role = "Right Leg"  -> <<"FEMUR.R", "MCH_femur.R">>
      [] role = "Left Hand"  -> <<"HAND.L">>
      [] role = "Right Hand" -> <<"HAND.R">>
      [] role = "Left Arm"   -> <<"HUMERUS.L">>
      [] role = "Right Arm"  -> <<"HUMERUS.R">>

SeqRange(s) == {s[k] : k \in 1..Len(s)}

KnownBones == UNION {SeqRange(RoleNames(r)) : r \in RoleSet}

\* a bone of the skeleton that no role names
OtherBones == {"SKULL"}

AllBones == KnownBones \cup OtherBones

\* a rig that carries only the fallback names of the roles that have one
FallbackRig == UNION {SeqRange(Tail(RoleNames(r))) : r \in RoleSet}

\* the skeletons explored: the sparse ones, the rig of fallback names, and
\* the complete one with and without a bone that no role names
Skeletons ==
    {s \in SUBSET AllBones : Cardinality(s) <= MaxPresent}
        \cup {FallbackRig, KnownBones, AllBones}

\* the for loop of find_bone, from position k of the name list
RECURSIVE FindFrom(_, _, _)
FindFrom(names, k, bones) ==
    IF k > Len(names) THEN None
    ELSE IF names[k] \in bones THEN names[k]
    ELSE FindFrom(names, k + 1, bones)

\* find_bone walking its name list from the back (the last existing name wins)
find_bone_last(bone_name, alternatives, bones) ==
    LET names == <<bone_name>> \o alternatives
        hits  == {k \in 1..Len(names) : names[k] \in bones}
    IN IF hits = {} THEN None
       ELSE names[CHOOSE k \in hits : \A m \in hits : m <= k]

find_bone(bone_name, alternatives, bones) ==
    FindFrom(<<bone_name>> \o alternatives, 1, bones)

\* lines 77-90: one find_bone call per role
ResolveAll(bones) ==
    [r \in RoleSet |-> find_bone(Head(RoleNames(r)), Tail(RoleNames(r)), bones)]

\* lines 106-112 with the loop left at the first missing role
RECURSIVE AvailableUntilMissing(_, _)
AvailableUntilMissing(rb, k) ==
    IF k > Len(Roles) \/ rb[Roles[k]] = None THEN <<>>
    ELSE <<<<Roles[k], rb[Roles[k]]>>>> \o AvailableUntilMissing(rb, k + 1)

\* lines 106-112: the (name, bone) pairs whose bone is truthy, in list order
RECURSIVE Available(_, _)
Available(rb, k) ==
    IF k > Len(Roles) THEN <<>>
    ELSE (IF rb[Roles[k]] # None THEN <<<<Roles[k], rb[Roles[k]]>>>> ELSE <<>>)
         \o Available(rb, k + 1)

----------------------------------------------------------------------------
(* Sample frames and phase, lines 48-52 and 134-141 *)

frame_start == 1
frame_end == 40
fps == 30

\* the sample list closing the loop by keying frame 1 again
walk_frames_loopback == <<1, 6, 11, 16, 21, 26, 31, 36, 1>>

\* the sample list counted from frame 0
walk_frames_from0 == <<0, 5, 10, 15, 20, 25, 30, 35, 40>>

walk_frames == <<1, 6, 11, 16, 21, 26, 31, 36, 40>>

\* line 141 dividing by the number of samples instead of 8
CyclePos_div9(idx) == IF idx < 8 THEN (idx * Scale) \div 9 ELSE 0

\* line 141 without the wrap of the last sample
CyclePos_nowrap(idx) == (idx * Scale) \div 8

\* line 141: cycle_pos = i / 8.0 if i < 8 else 0
CyclePos(idx) == IF idx < 8 THEN (idx * Scale) \div 8 ELSE 0

----------------------------------------------------------------------------
(* Per-bone pose functions, lines 121-132 and 158-292 *)

\* lines 121-126: clear_transforms
clear_transforms ==
    [location            |-> <<0, 0, 0>>,
     rotation_quaternion |-> <<Scale, 0, 0, 0>>,
     rotation_euler      |-> <<0, 0, 0>>,
     scale               |-> <<Scale, Scale, Scale>>]

\* a transform left in the file by an earlier pose, before any clearing
LeftoverPose ==
    [location            |-> <<70, 0 - 30, 10>>,
     rotation_quaternion |-> <<Scale, 0, 0, 0>>,
     rotation_euler      |-> <<250, 0, 0 - 125>>,
     scale               |-> <<Scale, Scale, Scale>>]

\* lines 158-170: hips
HipsPose(b, p) ==
    LET hip_height   == Mul(200, 500 + Mul(500, CosPi(p * 4)))
        hip_sway     == Mul(120, SinPi(p * 2))
        forward_move == Mul(p, 1000)
        hip_rotation == Mul(Radians(25000), SinPi(p * 2))
    IN [b EXCEPT !.location = <<forward_move, hip_sway, hip_height>>,
                 !.rotation_euler = <<0, 0, hip_rotation>>]

\* lines 172-183: left thigh
LeftLegPose(b, p) ==
    IF 500 <= p /\ p < 1000
    THEN LET swing_progress == (p - 500) * 2
             thigh_rotation == Mul(Radians(80000), SinPi(swing_progress))
         IN [b EXCEPT !.rotation_euler = <<0 - thigh_rotation, 0, 0>>]
    ELSE LET support_progress == IF p < 500 THEN p * 2 ELSE 0
             thigh_rotation   == Mul(Radians(50000), 1000 - support_progress)
         IN [b EXCEPT !.rotation_euler = <<thigh_rotation, 0, 0>>]

\* the right thigh swinging in the same half cycle as the left one
RightLegPose_samePhase(b, p) ==
    IF 500 <= p /\ p < 1000
    THEN LET swing_progress == (p - 500) * 2
             thigh_rotation == Mul(Radians(80000), SinPi(swing_progress))
         IN [b EXCEPT !.rotation_euler = <<0 - thigh_rotation, 0, 0>>]
    ELSE LET support_progress == IF p < 500 THEN p * 2 ELSE 0
             thigh_rotation   == Mul(Radians(50000), 1000 - support_progress)
         IN [b EXCEPT !.rotation_euler = <<thigh_rotation, 0, 0>>]

\* lines 185-196: right thigh
RightLegPose(b, p) ==
    IF 0 <= p /\ p < 500
    THEN LET swing_progress == p * 2
             thigh_rotation == Mul(Radians(80000), SinPi(swing_progress))
         IN [b EXCEPT !.rotation_euler = <<0 - thigh_rotation, 0, 0>>]
    ELSE LET support_progress == (p - 500) * 2
             thigh_rotation   == Mul(Radians(50000), 1000 - support_progress)
         IN [b EXCEPT !.rotation_euler = <<thigh_rotation, 0, 0>>]

\* lines 200-225: left foot
LeftFootPose(b, p) ==
    IF 400 <= p /\ p < 900
    THEN LET swing_progress == Div(p - 400, 500)
             plant_progress == Div(swing_progress - 700, 300)
             foot_height ==
                 IF swing_progress < 300 THEN Mul(400, Div(swing_progress, 300))
                 ELSE IF swing_progress < 700 THEN 400
                 ELSE Mul(400, 1000 - plant_progress)
             foot_forward ==
                 IF swing_progress < 300 THEN Mul(300, Div(swing_progress, 300))
                 ELSE IF swing_progress < 700
                      THEN 300 + Mul(800, Div(swing_progress - 300, 400))
                 ELSE 1100
             foot_angle ==
                 IF swing_progress < 300
                 THEN Mul(Radians(0 - 45000), Div(swing_progress, 300))
                 ELSE IF swing_progress < 700 THEN Radians(0 - 30000)
                 ELSE Radians(50 * plant_progress - 30000)
         IN [b EXCEPT !.location = <<foot_forward, 0, foot_height>>,
                      !.rotation_euler = <<foot_angle, 0, 0>>]
    ELSE LET support_progress == IF p < 400 THEN p ELSE Div(p - 900, 100)
             foot_forward == Mul(1100, 1000 - support_progress * 2)
             pushoff ==
                 IF support_progress # 0
                 THEN Mul(Radians(30000),
                          Max(0, Div(support_progress * 2 - 800, 200)))
                 ELSE 0
         IN [b EXCEPT !.location = <<foot_forward, 0, 0>>,
                      !.rotation_euler = <<pushoff, 0, 0>>]

\* the right foot moving in step with the left one
RightFootPose_samePhase(b, p) == LeftFootPose(b, p)

\* lines 227-255: right foot
RightFootPose(b, p) ==
    LET offset_cycle == (p + 500) % 1000
    IN IF 400 <= offset_cycle /\ offset_cycle < 900
       THEN LET swing_progress == Div(offset_cycle - 400, 500)
                plant_progress == Div(swing_progress - 700, 300)
                foot_height ==
                    IF swing_progress < 300 THEN Mul(400, Div(swing_progress, 300))
                    ELSE IF swing_progress < 700 THEN 400
                    ELSE Mul(400, 1000 - plant_progress)
                foot_forward ==
                    IF swing_progress < 300 THEN Mul(300, Div(swing_progress, 300))
                    ELSE IF swing_progress < 700
                         THEN 300 + Mul(800, Div(swing_progress - 300, 400))
                    ELSE 1100
                foot_angle ==
                    IF swing_progress < 300
                    THEN Mul(Radians(0 - 45000), Div(swing_progress, 300))
                    ELSE IF swing_progress < 700 THEN Radians(0 - 30000)
                    ELSE Radians(50 * plant_progress - 30000)
            IN [b EXCEPT !.location = <<foot_forward, 0, foot_height>>,
                         !.rotation_euler = <<foot_angle, 0, 0>>]
       ELSE LET support_progress ==
                    IF offset_cycle < 400 THEN offset_cycle
                    ELSE Div(offset_cycle - 900, 100)
                foot_forward == Mul(1100, 1000 - support_progress * 2)
                pushoff ==
                    IF support_progress # 0
                    THEN Mul(Radians(30000),
                             Max(0, Div(support_progress * 2 - 800, 200)))
                    ELSE 0
            IN [b EXCEPT !.location = <<foot_forward, 0, 0>>,
                         !.rotation_euler = <<pushoff, 0, 0>>]

\* lines 257-265: left upper arm
LeftArmPose(b, p) ==
    LET arm_swing == Mul(Radians(70000), SinPi((p + 500) * 2))
        arm_side  == Mul(Radians(20000), SinPi((p + 500) * 2))
        arm_twist == Mul(Radians(15000), CosPi((p + 500) * 2))
    IN [b EXCEPT !.rotation_euler = <<arm_swing, arm_twist, arm_side>>]

\* lines 267-272: right upper arm
RightArmPose(b, p) ==
    LET arm_swing == Mul(Radians(70000), SinPi(p * 2))
        arm_side  == Mul(Radians(20000), SinPi(p * 2))
        arm_twist == Mul(Radians(15000), CosPi(p * 2))
    IN [b EXCEPT !.rotation_euler = <<arm_swing, arm_twist, 0 - arm_side>>]

\* lines 274-278: left hand
LeftHandPose(b, p) ==
    LET hand_curl  == Mul(Radians(35000), SinPi((p + 300) * 2))
        hand_twist == Mul(Radians(20000), CosPi((p + 300) * 2))
    IN [b EXCEPT !.rotation_euler = <<hand_curl, 0, hand_twist>>]

\* lines 280-284: right hand
RightHandPose(b, p) ==
    LET hand_curl  == Mul(Radians(35000), SinPi((p + 800) * 2))
        hand_twist == Mul(Radians(20000), CosPi((p + 800) * 2))
    IN [b EXCEPT !.rotation_euler = <<hand_curl, 0, hand_twist>>]

\* lines 286-292: chest
ChestPose(b, p) ==
    LET chest_twist == Mul(Radians(20000), SinPi(p * 2))
        chest_tilt  == Mul(Radians(8000), SinPi(p * 4))
        chest_lean  == Mul(Radians(10000), SinPi((p + 250) * 2))
    IN [b EXCEPT !.rotation_euler = <<chest_tilt + chest_lean, 0, 0 - chest_twist>>]

\* lines 158-292: the if/elif chain on the bone's identity, applied to the
\* transform b of the bone named bone
Displace(bone, rb, b, p) ==
    IF bone = rb["Hips"] THEN HipsPose(b, p)
    ELSE IF bone = rb["Left Leg"] THEN LeftLegPose(b, p)
    ELSE IF bone = rb["Right Leg"] THEN RightLegPose(b, p)
    ELSE IF bone = rb["Left Foot"] THEN LeftFootPose(b, p)
    ELSE IF bone = rb["Right Foot"] THEN RightFootPose(b, p)
    ELSE IF bone = rb["Left Arm"] THEN LeftArmPose(b, p)
    ELSE IF bone = rb["Right Arm"] THEN RightArmPose(b, p)
    ELSE IF bone = rb["Left Hand"] THEN LeftHandPose(b, p)
    ELSE IF bone = rb["Right Hand"] THEN RightHandPose(b, p)
    ELSE IF bone = rb["Chest"] THEN ChestPose(b, p)
    ELSE b

\* one keyframe_insert: a keyframe point of the bone's data_path at frame,
\* holding the property's current value, with the tool's default interpolation
KeyframeInsert(bone, data_path, frame, b, pref) ==
    [bone |-> bone, data_path |-> data_path, frame |-> frame,
     value |-> b[data_path],
     interpolation |-> pref, handle_left_type |-> "AUTO_CLAMPED",
     handle_right_type |-> "AUTO_CLAMPED"]

\* keyframe_bone keying the rotation channels only
keyframe_bone_noLocation(ks, bone, frame, b, pref) ==
    ks \o <<KeyframeInsert(bone, "rotation_quaternion", frame, b, pref),
            KeyframeInsert(bone, "rotation_euler", frame, b, pref)>>

\* lines 128-132: keyframe_bone
keyframe_bone(ks, bone, frame, b, pref) ==
    ks \o <<KeyframeInsert(bone, "location", frame, b, pref),
            KeyframeInsert(bone, "rotation_quaternion", frame, b, pref),
            KeyframeInsert(bone, "rotation_euler", frame, b, pref)>>

\* lines 298-304 reaching only the first keyframe point of the action
SetInterpolation_firstOnly(ks) ==
    [k \in 1..Len(ks) |->
        IF k = 1
        THEN [ks[k] EXCEPT !.interpolation = "BEZIER",
                           !.handle_left_type = "AUTO",
                           !.handle_right_type = "AUTO"]
        ELSE ks[k]]

\* lines 298-304: every keyframe point of every fcurve becomes BEZIER / AUTO
SetInterpolation(ks) ==
    [k \in 1..Len(ks) |->
        [ks[k] EXCEPT !.interpolation = "BEZIER",
                      !.handle_left_type = "AUTO",
                      !.handle_right_type = "AUTO"]]

----------------------------------------------------------------------------
(* create_walking_animation as a state machine *)

Unset == "unset"

\* the scene after read_homefile(use_empty=True)
EmptyScene ==
    [frame_start |-> 1, frame_end |-> 250, fps |-> 24, frame_current |-> 1]

\* the state of create_walking_animation before its first statement
WalkInit ==
    /\ pose_bones = {}
    /\ pose = <<>>
    /\ prefs = "BEZIER"
    /\ scene = EmptyScene
    /\ roleBone = [r \in RoleSet |-> None]
    /\ available_bones = <<>>
    /\ i = 0
    /\ j = 0
    /\ cycle_pos = 0
    /\ keys = <<>>
    /\ printed = <<>>
    /\ ret = Unset
    /\ armature_obj = None
    /\ result = Unset

\* a call of a step that can fail, on the n-th input of the run
Attempt(step, n) == [step |-> step, input |-> n]

\* the locals of the image and converter scripts before they are assigned;
\* objects is what the scene holds, by the number of the file it was
\* imported from, 0 for what the startup scene comes with
NoLocals ==
    [width |-> 0, height |-> 0, frame_width |-> 0, frame_height |-> 0,
     num_frames |-> 0, row |-> 0, col |-> 0, count |-> 0, total |-> 0,
     name |-> <<>>, png_files |-> <<>>, returned |-> Unset,
     scene_bound |-> FALSE, actions |-> 0, export_animations |-> FALSE,
     main_export |-> Unset, exit_status |-> Unset, made |-> {},
     dirs |-> <<>>, didx |-> 0, error |-> Unset,
     objects |-> {0}]

\* no image or converter script is running
IoIdle ==
    /\ script = "none"
    /\ inputs = <<>>
    /\ fidx = 0
    /\ loc = NoLocals
    /\ written = <<>>
    /\ stdout = <<>>
    /\ attempts = <<>>

Init ==
    /\ pc = "start"
    /\ WalkInit
    /\ arg = <<>>
    /\ out = <<>>
    /\ IoIdle

\* lines 18-26: skeleton.blend is missing (return False), or it is opened and
\* brings a scene with or without an armature, or open_mainfile raises
LoadFile ==
    /\ pc = "start"
    /\ \/ /\ pc' = "done"
          /\ ret' = FALSE
          /\ UNCHANGED <<pose_bones, pose, prefs, armature_obj, attempts>>
       \/ /\ pc' = "raised"
          /\ attempts' = Append(attempts, Attempt("open_mainfile", 1))
          /\ UNCHANGED <<pose_bones, pose, prefs, armature_obj, ret>>
       \/ /\ pc' = "find_armature"
          /\ armature_obj' = None
          /\ attempts' = Append(attempts, Attempt("open_mainfile", 1))
          /\ UNCHANGED <<pose_bones, pose, prefs, ret>>
       \/ \E s \in Skeletons, leftover \in BOOLEAN, pref \in {"BEZIER", "LINEAR"} :
             /\ pc' = "find_armature"
             /\ armature_obj' = "Armature"
             /\ pose_bones' = s
             /\ pose' = [b \in s |-> IF leftover THEN LeftoverPose
                                     ELSE clear_transforms]
             /\ prefs' = pref
             /\ ret' = ret
             /\ attempts' = Append(attempts, Attempt("open_mainfile", 1))
    /\ UNCHANGED <<scene, roleBone, available_bones, i, j, cycle_pos, keys,
                   printed, result, arg, out, script, inputs, fidx, loc, written, stdout>>

\* lines 28-59: no armature returns False; else pose mode, the scene's frame
\* range and rate, and the new WalkCycle action
FindArmature ==
    /\ pc = "find_armature"
    /\ IF armature_obj = None
       THEN /\ pc' = "done"
            /\ ret' = FALSE
            /\ scene' = scene
       ELSE /\ pc' = "resolve"
            /\ ret' = ret
            /\ scene' = [scene EXCEPT !.frame_start = frame_start,
                                      !.frame_end = frame_end,
                                      !.fps = fps]
    /\ UNCHANGED <<pose_bones, pose, prefs, roleBone, available_bones, i, j,
                   cycle_pos, keys, printed, armature_obj, result, arg, out, ioVars>>

\* lines 63-90
ResolveBones ==
    /\ pc = "resolve"
    /\ roleBone' = ResolveAll(pose_bones)
    /\ pc' = "collect"
    /\ UNCHANGED <<pose_bones, pose, prefs, scene, available_bones, i, j,
                   cycle_pos, keys, printed, ret, armature_obj, result, arg, out, ioVars>>

\* lines 92-116
CollectAvailable ==
    /\ pc = "collect"
    /\ available_bones' = Available(roleBone, 1)
    /\ IF available_bones' = <<>>
       THEN pc' = "done" /\ ret' = FALSE
       ELSE pc' = "frame" /\ ret' = ret
    /\ i' = 0
    /\ UNCHANGED <<pose_bones, pose, prefs, scene, roleBone, j, cycle_pos, keys,
                   printed, armature_obj, result, arg, out, ioVars>>

\* lines 137-143: the head of one iteration of the sample-frame loop
FrameSet ==
    /\ pc = "frame"
    /\ scene' = [scene EXCEPT !.frame_current = walk_frames[i + 1]]
    /\ cycle_pos' = CyclePos(i)
    /\ printed' = Append(printed, <<walk_frames[i + 1], cycle_pos'>>)
    /\ j' = 1
    /\ pc' = "bones"
    /\ UNCHANGED <<pose_bones, pose, prefs, roleBone, available_bones, i, keys,
                   ret, armature_obj, result, arg, out, ioVars>>

\* lines 151-295 without the call of clear_transforms at line 156
AnimateBone_noClear ==
    /\ pc = "bones"
    /\ j <= Len(available_bones)
    /\ LET bone  == available_bones[j][2]
           frame == walk_frames[i + 1]
           b     == Displace(bone, roleBone, pose[bone], cycle_pos)
       IN /\ pose' = [pose EXCEPT ![bone] = b]
          /\ keys' = keyframe_bone(keys, bone, frame, b, prefs)
    /\ IF j < Len(available_bones)
       THEN /\ j' = j + 1
            /\ UNCHANGED <<i, pc>>
       ELSE IF i + 1 < Len(walk_frames)
       THEN /\ i' = i + 1
            /\ pc' = "frame"
            /\ j' = j
       ELSE /\ pc' = "interp"
            /\ UNCHANGED <<i, j>>
    /\ UNCHANGED <<pose_bones, prefs, scene, roleBone, available_bones,
                   cycle_pos, printed, ret, armature_obj, result, arg, out, ioVars>>

\* lines 151-295: one iteration of the inner loop (clear, displace, key), and
\* the step to the next bone, the next frame or the end of the loop
AnimateBone ==
    /\ pc = "bones"
    /\ j <= Len(available_bones)
    /\ LET bone  == available_bones[j][2]
           frame == walk_frames[i + 1]
           b     == Displace(bone, roleBone, clear_transforms, cycle_pos)
       IN /\ pose' = [pose EXCEPT ![bone] = b]
          /\ keys' = keyframe_bone(keys, bone, frame, b, prefs)
    /\ IF j < Len(available_bones)
       THEN /\ j' = j + 1
            /\ UNCHANGED <<i, pc>>
       ELSE IF i + 1 < Len(walk_frames)
       THEN /\ i' = i + 1
            /\ pc' = "frame"
            /\ j' = j
       ELSE /\ pc' = "interp"
            /\ UNCHANGED <<i, j>>
    /\ UNCHANGED <<pose_bones, prefs, scene, roleBone, available_bones,
                   cycle_pos, printed, ret, armature_obj, result, arg, out, ioVars>>

\* lines 297-307
Interpolate ==
    /\ pc = "interp"
    /\ keys' = SetInterpolation(keys)
    /\ scene' = [scene EXCEPT !.frame_current = 1]
    /\ pc' = "save"
    /\ UNCHANGED <<pose_bones, pose, prefs, roleBone, available_bones, i, j,
                   cycle_pos, printed, ret, armature_obj, result, arg, out, ioVars>>

\* lines 322-325: save_as_mainfile, which may raise
SaveBlend ==
    /\ pc = "save"
    /\ pc' \in {"export", "raised"}
    /\ attempts' = Append(attempts, Attempt("save_as_mainfile", 1))
    /\ UNCHANGED <<pose_bones, pose, prefs, scene, roleBone, available_bones, i,
                   j, cycle_pos, keys, printed, ret, armature_obj, result, arg,
                   out, script, inputs, fidx, loc, written, stdout>>

ExportResults == {"FINISHED", "CANCELLED"}

\* lines 327-363 with the return value taken from the export result
ExportGLB_resultDecides ==
    /\ pc = "export"
    /\ attempts' = Append(attempts, Attempt("export_scene.gltf", 1))
    /\ \/ \E r \in {"FINISHED", "CANCELLED"} :
             /\ result' = r
             /\ ret' = (r = "FINISHED")
             /\ pc' = "done"
       \/ /\ pc' = "raised"
          /\ UNCHANGED <<result, ret>>
    /\ UNCHANGED <<pose_bones, pose, prefs, scene, roleBone, available_bones, i,
                   j, cycle_pos, keys, printed, armature_obj, arg, out, script,
                   inputs, fidx, loc, written, stdout>>

\* lines 327-363: the export finishes, is cancelled, or raises; when it
\* returns the function returns True
ExportGLB ==
    /\ pc = "export"
    /\ attempts' = Append(attempts, Attempt("export_scene.gltf", 1))
    /\ \/ \E r \in ExportResults :
             /\ result' = r
             /\ ret' = TRUE
             /\ pc' = "done"
       \/ /\ pc' = "raised"
          /\ UNCHANGED <<result, ret>>
    /\ UNCHANGED <<pose_bones, pose, prefs, scene, roleBone, available_bones, i,
                   j, cycle_pos, keys, printed, armature_obj, arg, out, script,
                   inputs, fidx, loc, written, stdout>>

Next ==
    \/ LoadFile
    \/ FindArmature
    \/ ResolveBones
    \/ CollectAvailable
    \/ FrameSet
    \/ AnimateBone
    \/ Interpolate
    \/ SaveBlend
    \/ ExportGLB

Spec == Init /\ [][Next]_vars

walkVars == <<pose_bones, pose, prefs, scene, roleBone, available_bones, i, j,
              cycle_pos, keys, printed, ret, armature_obj, result>>

----------------------------------------------------------------------------
(* find_bone alone, over every skeleton and name list of a small universe *)

FindNames == {"CONTROL_HIPS", "PELVIS", "PIV_HIPS", "SKULL"}

BoundedSeqs(S, n) == UNION {[1..k -> S] : k \in 0..n}

InitFind ==
    /\ pc = "find_bone"
    /\ WalkInit
    /\ arg \in [bone_name    : FindNames,
                alternatives : BoundedSeqs(FindNames, MaxAlternatives),
                bones        : SUBSET FindNames]
    /\ out = <<>>
    /\ IoIdle

ApplyFind ==
    /\ pc = "find_bone"
    /\ out' = find_bone(arg.bone_name, arg.alternatives, arg.bones)
    /\ pc' = "found"
    /\ UNCHANGED <<walkVars, arg, ioVars>>

SpecFind == InitFind /\ [][ApplyFind]_vars

----------------------------------------------------------------------------
(* the foot and thigh functions alone, over every phase of the grid *)

InitPhase ==
    /\ pc = "phase"
    /\ WalkInit
    /\ arg \in 0..(Scale - 1)
    /\ out = <<>>
    /\ IoIdle

ApplyPhase ==
    /\ pc = "phase"
    /\ out' = [left_foot  |-> LeftFootPose(clear_transforms, arg),
               right_foot |-> RightFootPose(clear_transforms, arg),
               left_leg   |-> LeftLegPose(clear_transforms, arg),
               right_leg  |-> RightLegPose(clear_transforms, arg)]
    /\ pc' = "phased"
    /\ UNCHANGED <<walkVars, arg, ioVars>>

SpecPhase == InitPhase /\ [][ApplyPhase]_vars

----------------------------------------------------------------------------
(* Properties of the walk-cycle synthesizer *)

KeyIdx == 1..Len(keys)

SampleFrames == {1, 6, 11, 16, 21, 26, 31, 36, 40}

\* the role names some bone of the loaded skeleton
RoleHit(r) == SeqRange(RoleNames(r)) \cap pose_bones # {}

\* an armature was found and the sample-frame loop is behind the function
LoopOver ==
    /\ armature_obj # None
    /\ pc \in {"interp", "save", "export", "done", "raised"}

\* C1: find_bone returns the first entry of [bone_name] + alternatives that
\* exists in the skeleton, and None exactly when no entry exists.
C1_FirstMatchWins ==
    pc = "found" =>
        LET names == <<arg.bone_name>> \o arg.alternatives
            hits  == {k \in 1..Len(names) : names[k] \in arg.bones}
        IN /\ (out = None) <=> (hits = {})
           /\ hits # {} =>
                \E k \in hits : /\ out = names[k]
                                /\ \A m \in hits : k <= m

\* primary absent, alt1 and a different alt2 both present: alt1 was selected
C1_Witness ==
    /\ pc = "found"
    /\ Len(arg.alternatives) = 2
    /\ arg.bone_name \notin arg.bones
    /\ arg.alternatives[1] \in arg.bones
    /\ arg.alternatives[2] \in arg.bones
    /\ arg.alternatives[1] # arg.alternatives[2]
    /\ out = arg.alternatives[1]

\* C2: a role none of whose names exists in the skeleton never receives a
\* keyframe, and once the loop is over (no error having stopped it) every role
\* that has a bone holds keyframes at all nine sample frames, the cycle length
\* being 40 frames whatever the number of missing roles.
C2_MissingRoleSkipped ==
    /\ \A r \in RoleSet :
          ~RoleHit(r) =>
             \A k \in KeyIdx : keys[k].bone \notin SeqRange(RoleNames(r))
    /\ LoopOver =>
          /\ scene.frame_end - scene.frame_start + 1 = 40
          /\ \A r \in RoleSet :
                RoleHit(r) =>
                   \A f \in SampleFrames :
                      \E k \in KeyIdx :
                         /\ keys[k].bone \in SeqRange(RoleNames(r)) \cap pose_bones
                         /\ keys[k].frame = f

\* the run ended with a first role missing and a later role fully keyed
C2_Witness ==
    /\ pc = "done"
    /\ ret = TRUE
    /\ ~RoleHit("Hips")
    /\ RoleHit("Right Arm")
    /\ Len(keys) = 3 * 9 * Len(available_bones)

\* C3: when create_walking_animation returns, it returns False if and only
\* if no role bone was resolved (file missing, no armature, or no name
\* matched), whatever the export result.
C3_FalseIffNoBone ==
    pc = "done" =>
        /\ ret \in BOOLEAN
        /\ (ret = FALSE) <=> (\A r \in RoleSet : roleBone[r] = None)

\* a run with resolved bones whose export did not finish, returning True
C3_Witness ==
    /\ pc = "done"
    /\ result = "CANCELLED"
    /\ ret = TRUE
    /\ \E r \in RoleSet : roleBone[r] # None

\* C4: for each (bone, data path) the keyframes are inserted at strictly
\* increasing frames, so no (bone, data path, frame) is keyed twice, and two
\* roles never resolve to the same bone.
C4_KeyframesIncreasing ==
    /\ \A a \in KeyIdx :
          \A b \in (a + 1)..Len(keys) :
             (keys[a].bone = keys[b].bone /\ keys[a].data_path = keys[b].data_path)
                => keys[a].frame < keys[b].frame
    /\ \A r1, r2 \in RoleSet :
          (r1 # r2 /\ roleBone[r1] # None) => roleBone[r1] # roleBone[r2]

\* in the middle of the bone loop of a later frame, with several bones keyed
C4_Witness ==
    /\ pc = "bones"
    /\ i >= 2
    /\ j = 2
    /\ Len(available_bones) >= 3
    /\ \E a, b \in KeyIdx : a < b /\ keys[a].bone = keys[b].bone
                                  /\ keys[a].data_path = keys[b].data_path

\* C5: once the sample-frame loop has finished, every resolved bone has a
\* location keyframe and a rotation keyframe at every sample frame, and no
\* keyframe ever sits at a frame outside 1, 6, 11, 16, 21, 26, 31, 36, 40.
C5_KeyframesComplete ==
    /\ \A k \in KeyIdx : keys[k].frame \in SampleFrames
    /\ LoopOver =>
          \A r \in RoleSet :
             roleBone[r] # None =>
                \A f \in SampleFrames :
                   \A path \in {"location", "rotation_euler", "rotation_quaternion"} :
                      \E k \in KeyIdx : /\ keys[k].bone = roleBone[r]
                                        /\ keys[k].data_path = path
                                        /\ keys[k].frame = f

\* the loop has just finished on a skeleton that resolves all ten roles
C5_Witness ==
    /\ pc = "interp"
    /\ Len(available_bones) = 10
    /\ Len(keys) = 270

\* C6 as stated: the phase of sample i is i/8, it never decreases along the
\* ordered samples, and it is 0 at the last sample.
C6_Original ==
    /\ \A k \in 1..Len(printed) : printed[k][2] = ((k - 1) * Scale) \div 8
    /\ \A k \in 2..Len(printed) : printed[k - 1][2] <= printed[k][2]
    /\ Len(printed) = 9 => printed[9][2] = 0

\* C6 amended: the phase of sample i is i/8 for the first eight samples
\* (i < 8), where it strictly increases; at the ninth sample (frame 40) it
\* drops back to 0.
C6_PhaseWraps ==
    /\ \A k \in 1..Len(printed) :
          /\ k <= 8 => printed[k][2] = ((k - 1) * Scale) \div 8
          /\ k = 9 => printed[k][2] = 0
    /\ \A k \in 2..Len(printed) : k <= 8 => printed[k - 1][2] < printed[k][2]
    /\ pc = "bones" => cycle_pos = printed[Len(printed)][2]

\* the last sample has been reached, after the phase had risen to 7/8
C6_Witness ==
    /\ Len(printed) = 9
    /\ printed[8][2] = 875
    /\ printed[9] = <<40, 0>>

\* C7 as stated: the sample frames strictly increase and each satisfies
\* 0 <= f < N, N being the cycle length of 40 frames set on the scene.
C7_Original ==
    /\ \A k \in 2..Len(printed) : printed[k - 1][1] < printed[k][1]
    /\ \A k \in 1..Len(printed) :
          /\ 0 <= printed[k][1]
          /\ printed[k][1] < scene.frame_end - scene.frame_start + 1

\* C7 amended: the sample frames strictly increase and each satisfies
\* frame_start <= f <= frame_end, that is 1 <= f <= N with N = 40; the
\* first sample is frame 1 and the last is frame N itself.
C7_FramesInRange ==
    /\ \A k \in 2..Len(printed) : printed[k - 1][1] < printed[k][1]
    /\ \A k \in 1..Len(printed) :
          /\ scene.frame_start <= printed[k][1]
          /\ printed[k][1] <= scene.frame_end
          /\ scene.frame_current \in {1, printed[k][1]} \/ k < Len(printed)
    /\ printed # <<>> =>
          /\ scene.frame_start = 1
          /\ scene.frame_end = 40
          /\ printed[1][1] = scene.frame_start
    /\ Len(printed) = 9 => printed[9][1] = scene.frame_end

\* the scene is at the last sample, frame 40 of the 40-frame cycle
C7_Witness ==
    /\ pc = "bones"
    /\ Len(printed) = 9
    /\ scene.frame_current = 40
    /\ scene.frame_end - scene.frame_start + 1 = 40

\* C8: the phase of every sample lies in [0, 1), the sample of frame 40 has
\* the phase of the sample of frame 1, and each bone's location and rotation
\* keyed at frame 40 equal those keyed at frame 1.
C8_CycleLoops ==
    /\ 0 <= cycle_pos /\ cycle_pos < Scale
    /\ \A k \in 1..Len(printed) :
          /\ 0 <= printed[k][2] /\ printed[k][2] < Scale
          /\ printed[k][1] = 40 => printed[k][2] = printed[1][2]
    /\ \A a \in KeyIdx :
          keys[a].frame = 1 =>
             \A b \in KeyIdx :
                (/\ keys[b].frame = 40
                 /\ keys[a].bone = keys[b].bone
                 /\ keys[a].data_path = keys[b].data_path)
                   => keys[a].value = keys[b].value

\* the hips were keyed at frame 40 with the pose of frame 1, after having
\* moved forward in between
C8_Witness ==
    /\ roleBone["Hips"] # None
    /\ \E a \in KeyIdx :
          /\ keys[a].bone = roleBone["Hips"]
          /\ keys[a].data_path = "location"
          /\ keys[a].frame = 1
          /\ \E m \in KeyIdx :
                /\ keys[m].bone = roleBone["Hips"]
                /\ keys[m].data_path = "location"
                /\ keys[m].frame = 36
                /\ keys[m].value # keys[a].value
          /\ \E b \in KeyIdx :
                /\ keys[b].bone = roleBone["Hips"]
                /\ keys[b].data_path = "location"
                /\ keys[b].frame = 40
                /\ keys[b].value = keys[a].value

\* C9: at every phase p the right foot's location and rotation are those of
\* the left foot at (p + 0.5) mod 1, and the right thigh's rotation is that
\* of the left thigh at (p + 0.5) mod 1.
C9_HalfCycleMirror ==
    pc = "phased" =>
        LET q == (arg + Scale \div 2) % Scale
        IN /\ out.right_foot.location
                = LeftFootPose(clear_transforms, q).location
           /\ out.right_foot.rotation_euler
                = LeftFootPose(clear_transforms, q).rotation_euler
           /\ out.right_leg.rotation_euler
                = LeftLegPose(clear_transforms, q).rotation_euler

\* phase 1/8: the right foot is in the air and the right thigh swings, while
\* the left foot is on the ground
C9_Witness ==
    /\ pc = "phased"
    /\ arg = 125
    /\ out.right_foot.location[3] > 0
    /\ out.left_foot.location[3] = 0
    /\ out.right_leg.rotation_euler[1] < 0
    /\ out.left_leg.rotation_euler[1] > 0

\* C10: while sample frames are being processed no keyframe has had its
\* interpolation or handles assigned by the script, and once the
\* interpolation step has run every keyframe inserted during the run is
\* BEZIER with AUTO handles on both sides.
C10_InterpolationUniform ==
    /\ pc \in {"frame", "bones", "interp"} =>
          \A k \in KeyIdx : /\ keys[k].interpolation = prefs
                            /\ keys[k].handle_left_type = "AUTO_CLAMPED"
                            /\ keys[k].handle_right_type = "AUTO_CLAMPED"
    /\ (LoopOver /\ pc # "interp") =>
          /\ Len(keys) = 3 * 9 * Len(available_bones)
          /\ \A k \in KeyIdx : /\ keys[k].interpolation = "BEZIER"
                               /\ keys[k].handle_left_type = "AUTO"
                               /\ keys[k].handle_right_type = "AUTO"

\* keyframes inserted as LINEAR have all been turned to BEZIER / AUTO
C10_Witness ==
    /\ pc = "save"
    /\ prefs = "LINEAR"
    /\ Len(keys) >= 54
    /\ \A k \in KeyIdx : keys[k].interpolation = "BEZIER"

\* the role whose find_bone call returned this bone
RoleOf(bone) == CHOOSE r \in RoleSet : roleBone[r] = bone

\* the pose a role takes at phase p, as a function of the role and p alone
RolePose(r, p) ==
    LET id == [location            |-> <<0, 0, 0>>,
               rotation_quaternion |-> <<1000, 0, 0, 0>>,
               rotation_euler      |-> <<0, 0, 0>>,
               scale               |-> <<1000, 1000, 1000>>]
    IN CASE r = "Hips"       -> HipsPose(id, p)
         [] r = "Chest"      -> ChestPose(id, p)
         [] r = "Left Foot"  -> LeftFootPose(id, p)
         [] r = "Right Foot" -> RightFootPose(id, p)
         [] r = "Left Leg"   -> LeftLegPose(id, p)
         [] r = "Right Leg"  -> RightLegPose(id, p)
         [] r = "Left Hand"  -> LeftHandPose(id, p)
         [] r = "Right Hand" -> RightHandPose(id, p)
         [] r = "Left Arm"   -> LeftArmPose(id, p)
         [] r = "Right Arm"  -> RightArmPose(id, p)

\* C11: every keyframe holds the value that the bone's role function gives
\* at that frame's phase starting from the identity transform, whatever pose
\* the file or an earlier sample frame left on the bone; the rotation
\* quaternion is always keyed at identity, and the location of thighs, arms,
\* hands and chest is always keyed at 0.
C11_ClearedThenDisplaced ==
    \A k \in KeyIdx :
        LET r == RoleOf(keys[k].bone)
            p == printed[CHOOSE n \in 1..Len(printed) :
                            printed[n][1] = keys[k].frame][2]
        IN /\ keys[k].value = RolePose(r, p)[keys[k].data_path]
           /\ keys[k].data_path = "rotation_quaternion"
                 => keys[k].value = <<1000, 0, 0, 0>>
           /\ (keys[k].data_path = "location"
                 /\ r \notin {"Hips", "Left Foot", "Right Foot"})
                 => keys[k].value = <<0, 0, 0>>

\* the file came with posed bones (the bone no role names still carries its
\* pose) and the left thigh, rotated at 3/8 of the cycle, is keyed at
\* location 0 at the next sample
C11_Witness ==
    /\ "SKULL" \in pose_bones
    /\ pose["SKULL"] = LeftoverPose
    /\ roleBone["Left Leg"] # None
    /\ \E a \in KeyIdx :
          /\ keys[a].bone = roleBone["Left Leg"]
          /\ keys[a].frame = 16
          /\ keys[a].data_path = "rotation_euler"
          /\ keys[a].value # <<0, 0, 0>>
    /\ \E b \in KeyIdx :
          /\ keys[b].bone = roleBone["Left Leg"]
          /\ keys[b].frame = 21
          /\ keys[b].data_path = "location"
          /\ keys[b].value = <<0, 0, 0>>


----------------------------------------------------------------------------
(* Text: file names and formatted numbers are sequences of characters *)

Digits == <<"0", "1", "2", "3", "4", "5", "6", "7", "8", "9">>

UpperCase == <<"A", "B", "C", "D", "E", "F", "G", "H", "I", "J", "K", "L", "M", "N", "O", "P", "Q", "R", "S", "T", "U", "V", "W", "X", "Y", "Z">>

LowerCase == <<"a", "b", "c", "d", "e", "f", "g", "h", "i", "j", "k", "l", "m", "n", "o", "p", "q", "r", "s", "t", "u", "v", "w", "x", "y", "z">>

IsDigit(c) == \E d \in 1..10 : Digits[d] = c

\* \s of the pattern, for the characters that occur in file names
IsSpace(c) == c = " "

\* int() of a string of decimal digits
RECURSIVE int(_)
int(s) ==
    IF s = <<>> THEN 0
    ELSE 10 * int(SubSeq(s, 1, Len(s) - 1))
         + (CHOOSE d \in 0..9 : Digits[d + 1] = s[Len(s)])

\* the decimal digits of a natural number, as {n} formats it
RECURSIVE str(_)
str(n) ==
    IF n < 10 THEN <<Digits[n + 1]>>
    ELSE str(n \div 10) \o <<Digits[(n % 10) + 1]>>

\* {n}: no padding
format_d(n) == str(n)

\* {n:02d}: padded with zeros on the left to a width of at least two
format_02d(n) == IF Len(str(n)) < 2 THEN <<"0">> \o str(n) ELSE str(n)

\* str.lower()
lower(s) ==
    [k \in 1..Len(s) |->
        IF \E n \in 1..26 : UpperCase[n] = s[k]
        THEN LowerCase[CHOOSE n \in 1..26 : UpperCase[n] = s[k]]
        ELSE s[k]]

\* str.endswith(suffix)
endswith(s, suffix) ==
    /\ Len(s) >= Len(suffix)
    /\ SubSeq(s, Len(s) - Len(suffix) + 1, Len(s)) = suffix

\* str.strip(): leading and trailing whitespace removed
strip(s) ==
    LET ink == {k \in 1..Len(s) : ~IsSpace(s[k])}
    IN IF ink = {} THEN <<>>
       ELSE SubSeq(s, CHOOSE a \in ink : \A b \in ink : a <= b,
                      CHOOSE a \in ink : \A b \in ink : a >= b)

\* os.path.splitext(name)[0]: the name up to its last dot, a dot that only
\* follows dots being no extension
splitext(s) ==
    LET dots == {k \in 2..Len(s) :
                    /\ s[k] = "."
                    /\ \E m \in 1..(k - 1) : s[m] # "."}
    IN IF dots = {} THEN s
       ELSE SubSeq(s, 1, (CHOOSE a \in dots : \A b \in dots : a >= b) - 1)

DotPng == <<".", "p", "n", "g">>

\* [f for f in os.listdir(d) if f.lower().endswith('.png')]
PngFiles(files) == SelectSeq(files, LAMBDA f : endswith(lower(f.name), DotPng))

----------------------------------------------------------------------------
(* The files a slicer finds, and what happens when it opens and saves *)

SlicerScripts ==
    {"process_textures", "process_sprites", "process_pixel_adventure_2"}

\* a file that opens as a w x h image and whose tiles can all be saved
GoodFile(n, w, h) ==
    [name |-> n, exists |-> TRUE, openable |-> TRUE, width |-> w,
     height |-> h, save_fail_at |-> 0]

\* the file is not in the directory
MissingFile(n) ==
    [name |-> n, exists |-> FALSE, openable |-> FALSE, width |-> 0,
     height |-> 0, save_fail_at |-> 0]

\* the saves of one image that may raise: the first or the second
SaveFailAt == {1, 2}

\* a file as it is, one that Image.open rejects, one whose n-th save raises
Variants(f) ==
    {f, [f EXCEPT !.openable = FALSE]}
        \cup {[f EXCEPT !.save_fail_at = t] : t \in SaveFailAt}

\* names of a material directory: two that differ in the case of the
\* extension, and one that is no PNG file
TextureNames ==
    <<<<"s", "t", "o", "n", "e", ".", "p", "n", "g">>,
      <<"s", "t", "o", "n", "e", ".", "P", "N", "G">>,
      <<"w", "o", "o", "d", ".", "p", "n", "g">>,
      <<"n", "o", "t", "e", "s", ".", "t", "x", "t">>>>

\* process_sprites.py line 100: the sheets main looks for
sprite_files ==
    <<<<"b", "u", "l", "l", ".", "p", "n", "g">>,
      <<"c", "o", "w", ".", "p", "n", "g">>,
      <<"l", "i", "o", "n", ".", "p", "n", "g">>,
      <<"m", "o", "n", "k", "e", "y", ".", "p", "n", "g">>,
      <<"r", "a", "m", ".", "p", "n", "g">>,
      <<"t", "i", "g", "e", "r", ".", "p", "n", "g">>>>

\* names of an enemy directory
SheetNames ==
    <<<<"R", "u", "n", " ", "(", "3", "2", "x", "3", "2", ")", ".", "p", "n", "g">>,
      <<"R", "u", "n", " ", "(", "6", "4", "x", "6", "4", ")", ".", "p", "n", "g">>,
      <<"H", "i", "t", " ", "(", "2", "x", "3", ")", ".", "p", "n", "g">>,
      <<"I", "d", "l", "e", " ", "(", "0", "x", "3", "2", ")", ".", "p", "n", "g">>,
      <<"H", "i", "t", ".", "p", "n", "g">>,
      <<" ", " ", "(", "3", "2", "x", "3", "2", ")", ".", "p", "n", "g">>,
      <<"n", "o", "t", "e", "s", ".", "t", "x", "t">>>>

\* the image sizes of a directory with several files
BatchSize(s) ==
    CASE s = "process_textures" -> <<13, 9>>
      [] s = "process_sprites" -> <<7, 8>>
      [] s = "process_pixel_adventure_2" -> <<64, 32>>

\* the sizes of a single image: every small one, and the documented examples
Sizes(s) ==
    ((1..MaxDim) \X (1..MaxDim))
        \cup (CASE s = "process_textures" -> {<<1200, 800>>}
                [] s = "process_sprites" -> {}
                [] s = "process_pixel_adventure_2" -> {<<256, 32>>})

NamesOf(s) ==
    CASE s = "process_textures" -> TextureNames
      [] s = "process_sprites" -> sprite_files
      [] s = "process_pixel_adventure_2" -> SheetNames

NameIndex(s, n) == CHOOSE k \in 1..Len(NamesOf(s)) : NamesOf(s)[k] = n

\* a directory listing: up to MaxFiles of the names, in the order of the
\* list of names, each file in any of its variants
Listings(s) ==
    LET sz == BatchSize(s)
        fs == UNION {Variants(GoodFile(NamesOf(s)[k], sz[1], sz[2])) :
                        k \in 1..Len(NamesOf(s))}
    IN {l \in BoundedSeqs(fs, MaxFiles) :
            \A a \in 1..Len(l) : \A b \in (a + 1)..Len(l) :
                NameIndex(s, l[a].name) < NameIndex(s, l[b].name)}

\* the six sheets of process_sprites: the first MaxFiles of them present in
\* any variant or missing, the others missing
RECURSIVE SpriteListingsTo(_)
SpriteListingsTo(k) ==
    IF k = 0 THEN {<<>>}
    ELSE LET sz == BatchSize("process_sprites")
             fk == IF k > MaxFiles THEN {MissingFile(sprite_files[k])}
                   ELSE Variants(GoodFile(sprite_files[k], sz[1], sz[2]))
                            \cup {MissingFile(sprite_files[k])}
         IN {Append(l, f) : l \in SpriteListingsTo(k - 1), f \in fk}

SpriteListings == SpriteListingsTo(Len(sprite_files))

\* one good image of any size, alone in its directory
SingleImage(s) ==
    {IF s = "process_sprites"
     THEN [k \in 1..Len(sprite_files) |->
              IF k = 1 THEN GoodFile(sprite_files[1], sz[1], sz[2])
              ELSE MissingFile(sprite_files[k])]
     ELSE <<GoodFile(n, sz[1], sz[2])>> :
        sz \in Sizes(s),
        n \in IF s = "process_sprites" THEN {sprite_files[1]}
              ELSE SeqRange(NamesOf(s))}

DirName(s) ==
    CASE s = "process_textures" -> "stone"
      [] s = "process_sprites" -> "frames"
      [] s = "process_pixel_adventure_2" -> "Bat"

\* a printed line: what it says, the file it names, the number it reports
Line(t, f, n) == [tag |-> t, file |-> f, n |-> n]

\* the file of the directory that the loop is at
CurFile ==
    IF script = "process_sprites" THEN inputs.files[fidx]
    ELSE loc.png_files[fidx]

\* a directory that os.makedirs has made: below which directory of the
\* run, and under what name
Directory(dir, sub) == [dir |-> dir, sub |-> sub]

\* process_textures.py lines 52 and 99: the 'individual' directory of the
\* material
Individual == Directory(inputs.dir, <<"individual">>)

\* this save is the one that raises
SaveRaises == CurFile.save_fail_at = loc.count + 1

InitSlice ==
    /\ WalkInit
    /\ arg = <<>>
    /\ out = <<>>
    /\ script \in SlicerScripts
    /\ inputs \in [dir : {DirName(script)},
                   files : SingleImage(script)
                             \cup (IF script = "process_sprites"
                                   THEN SpriteListings
                                   ELSE Listings(script))]
    /\ pc = script
    /\ fidx = 0
    /\ loc = NoLocals
    /\ written = <<>>
    /\ stdout = <<>>
    /\ attempts = <<>>


----------------------------------------------------------------------------
(* process_textures.py: process_material_directory and split_texture_image *)

\* lines 59-62: the crop rectangle (left, top, right, bottom) of a tile
TileBox_swapped(row, col, w, h) ==
    <<row * w, col * h, row * w + w, col * h + h>>

TileBox_overlapping(row, col, w, h) ==
    <<col * w, row * h, col * w + w + 1, row * h + h>>

TileBox(row, col, w, h) ==
    <<col * w, row * h, col * w + w, row * h + h>>

\* lines 68-69
TextureFilename(base_name, row, col, texture_count) ==
    base_name \o <<"_", "r">> \o str(row + 1) \o <<"c">> \o str(col + 1)
        \o <<"_">> \o format_02d(texture_count + 1) \o DotPng

\* a written file: the source it was cut from, where it went, what it holds
Output(src, dir, sub, file, box) ==
    [src |-> src, dir |-> dir, sub |-> sub, file |-> file, box |-> box]

\* lines 95-109
TexListDir ==
    /\ pc = "process_textures"
    /\ LET png_files == PngFiles(inputs.files)
       IN IF png_files = <<>>
          THEN /\ stdout' = Append(stdout, Line("No PNG files", <<>>, 0))
               /\ pc' = "tex_returned"
               /\ UNCHANGED <<loc, fidx>>
          ELSE /\ loc' = [loc EXCEPT !.png_files = png_files, !.total = 0]
               /\ fidx' = 1
               /\ pc' = "tex_file"
               /\ UNCHANGED stdout
    /\ UNCHANGED <<walkVars, arg, out, script, inputs, written, attempts>>

\* lines 110-114 for the next file, lines 119-120 after the last
TexNextFile ==
    /\ pc = "tex_file"
    /\ IF fidx > Len(loc.png_files)
       THEN /\ stdout' = Append(stdout, Line("Completed", <<>>, loc.total))
            /\ pc' = "tex_returned"
            /\ UNCHANGED loc
       ELSE /\ stdout' = Append(stdout, Line("Processing", CurFile.name, 0))
            /\ loc' = [loc EXCEPT !.name = splitext(CurFile.name)]
            /\ pc' = "tex_open"
    /\ UNCHANGED <<walkVars, arg, out, script, inputs, fidx, written,
                   attempts>>

\* lines 35-55 with an open failure that ends the whole directory
TexOpen_abortsRun ==
    /\ pc = "tex_open"
    /\ attempts' = Append(attempts, Attempt("open", fidx))
    /\ IF ~CurFile.openable
       THEN /\ stdout' = Append(stdout, Line("Error", CurFile.name, 0))
            /\ loc' = [loc EXCEPT !.returned = 0, !.total = @ + 0]
            /\ fidx' = fidx
            /\ pc' = "tex_returned"
       ELSE LET width == CurFile.width
                height == CurFile.height
            IN /\ loc' = [loc EXCEPT !.width = width, !.height = height,
                                     !.frame_width = width \div 6,
                                     !.frame_height = height \div 4,
                                     !.row = 0, !.col = 0, !.count = 0,
                                     !.made = @ \cup {Individual}]
               /\ stdout' = IF width % 6 # 0 \/ height % 4 # 0
                            THEN stdout \o <<Line("Warning", CurFile.name, 0),
                                             Line("Expected", CurFile.name, 0)>>
                            ELSE stdout
               /\ fidx' = fidx
               /\ pc' = "tex_tile"
    /\ UNCHANGED <<walkVars, arg, out, script, inputs, written>>

\* split_texture_image lines 35-55, and lines 83-85 with line 117 when
\* Image.open raises
TexOpen ==
    /\ pc = "tex_open"
    /\ attempts' = Append(attempts, Attempt("open", fidx))
    /\ IF ~CurFile.openable
       THEN /\ stdout' = Append(stdout, Line("Error", CurFile.name, 0))
            /\ loc' = [loc EXCEPT !.returned = 0, !.total = @ + 0]
            /\ fidx' = fidx + 1
            /\ pc' = "tex_file"
       ELSE LET width == CurFile.width
                height == CurFile.height
            IN /\ loc' = [loc EXCEPT !.width = width, !.height = height,
                                     !.frame_width = width \div 6,
                                     !.frame_height = height \div 4,
                                     !.row = 0, !.col = 0, !.count = 0,
                                     !.made = @ \cup {Individual}]
               /\ stdout' = IF width % 6 # 0 \/ height % 4 # 0
                            THEN stdout \o <<Line("Warning", CurFile.name, 0),
                                             Line("Expected", CurFile.name, 0)>>
                            ELSE stdout
               /\ fidx' = fidx
               /\ pc' = "tex_tile"
    /\ UNCHANGED <<walkVars, arg, out, script, inputs, written>>

\* one pass of the loop body, lines 56-77; lines 83-85 and 117 when the save
\* raises
TexTile ==
    /\ pc = "tex_tile"
    /\ IF SaveRaises
       THEN /\ stdout' = Append(stdout, Line("Error", CurFile.name, 0))
            /\ loc' = [loc EXCEPT !.returned = 0, !.total = @ + 0]
            /\ fidx' = fidx + 1
            /\ pc' = "tex_file"
            /\ UNCHANGED written
       ELSE LET output_filename ==
                    TextureFilename(loc.name, loc.row, loc.col, loc.count)
                last == loc.row = 3 /\ loc.col = 5
            IN /\ written' = Append(written,
                    Output(CurFile.name, inputs.dir, <<>>, output_filename,
                           TileBox(loc.row, loc.col, loc.frame_width,
                                   loc.frame_height)))
               /\ stdout' = Append(stdout, Line("Saved", output_filename, 0))
               /\ loc' = [loc EXCEPT
                            !.count = @ + 1,
                            !.col = IF loc.col = 5 THEN 0 ELSE @ + 1,
                            !.row = IF loc.col = 5 /\ ~last THEN @ + 1 ELSE @]
               /\ pc' = IF last THEN "tex_split" ELSE "tex_tile"
               /\ fidx' = fidx
    /\ UNCHANGED <<walkVars, arg, out, script, inputs, attempts>>

\* lines 79-81, and line 117 of the caller
TexReturn ==
    /\ pc = "tex_split"
    /\ stdout' = Append(stdout, Line("Successfully split", CurFile.name,
                                     loc.count))
    /\ loc' = [loc EXCEPT !.returned = loc.count, !.total = @ + loc.count]
    /\ fidx' = fidx + 1
    /\ pc' = "tex_file"
    /\ UNCHANGED <<walkVars, arg, out, script, inputs, written, attempts>>

----------------------------------------------------------------------------
(* process_sprites.py: main and process_sprite_sheet *)

\* line 40
sides ==
    <<<<"b", "a", "c", "k">>,
      <<"r", "i", "g", "h", "t">>,
      <<"f", "r", "o", "n", "t">>,
      <<"l", "e", "f", "t">>>>

\* line 61
SpriteFilename(base_name, side, frame_num) ==
    base_name \o <<"_">> \o side \o <<"_">> \o str(frame_num) \o DotPng

\* lines 95-107
SprMain ==
    /\ pc = "process_sprites"
    /\ stdout' = Append(stdout, Line("Processing sprite sheets", <<>>,
                                     Len(sprite_files)))
    /\ fidx' = 1
    /\ pc' = "spr_file"
    /\ UNCHANGED <<walkVars, arg, out, script, inputs, loc, written,
                   attempts>>

\* lines 110-113 for the next sheet, 119-120 when it is missing, line 122
\* after the last
SprNextFile ==
    /\ pc = "spr_file"
    /\ IF fidx > Len(sprite_files)
       THEN /\ stdout' = Append(stdout, Line("Processing complete", <<>>, 0))
            /\ pc' = "spr_returned"
            /\ fidx' = fidx
       ELSE IF CurFile.exists
            THEN /\ pc' = "spr_open"
                 /\ fidx' = fidx
                 /\ UNCHANGED stdout
            ELSE /\ stdout' = Append(stdout,
                                     Line("Warning not found", CurFile.name, 0))
                 /\ fidx' = fidx + 1
                 /\ pc' = "spr_file"
    /\ UNCHANGED <<walkVars, arg, out, script, inputs, loc, written,
                   attempts>>

\* process_sprite_sheet lines 29-43; lines 117-118 of main when Image.open
\* raises
SprOpen ==
    /\ pc = "spr_open"
    /\ attempts' = Append(attempts, Attempt("open", fidx))
    /\ IF ~CurFile.openable
       THEN /\ stdout' = Append(stdout, Line("Error", CurFile.name, 0))
            /\ fidx' = fidx + 1
            /\ pc' = "spr_file"
            /\ UNCHANGED loc
       ELSE LET width == CurFile.width
                height == CurFile.height
            IN /\ loc' = [loc EXCEPT !.width = width, !.height = height,
                                     !.frame_width = width \div 3,
                                     !.frame_height = height \div 4,
                                     !.name = splitext(CurFile.name),
                                     !.row = 0, !.col = 0, !.count = 0]
               /\ stdout' = Append(stdout, Line("Processing", CurFile.name, 0))
               /\ fidx' = fidx
               /\ pc' = "spr_tile"
    /\ UNCHANGED <<walkVars, arg, out, script, inputs, written>>

\* one pass of the loop body, lines 46-66; line 116 after the last frame;
\* lines 117-118 when the save raises
SprTile ==
    /\ pc = "spr_tile"
    /\ IF SaveRaises
       THEN /\ stdout' = Append(stdout, Line("Error", CurFile.name, 0))
            /\ fidx' = fidx + 1
            /\ pc' = "spr_file"
            /\ UNCHANGED <<written, loc>>
       ELSE LET output_filename ==
                    SpriteFilename(loc.name, sides[loc.row + 1], loc.col + 1)
                last == loc.row = 3 /\ loc.col = 2
            IN /\ written' = Append(written,
                    Output(CurFile.name, inputs.dir, <<>>, output_filename,
                           TileBox(loc.row, loc.col, loc.frame_width,
                                   loc.frame_height)))
               /\ stdout' = Append(stdout, Line("Saved", output_filename, 0))
                                \o (IF last THEN <<Line("", <<>>, 0)>>
                                    ELSE <<>>)
               /\ loc' = [loc EXCEPT
                            !.count = @ + 1,
                            !.col = IF loc.col = 2 THEN 0 ELSE @ + 1,
                            !.row = IF loc.col = 2 /\ ~last THEN @ + 1 ELSE @]
               /\ pc' = IF last THEN "spr_file" ELSE "spr_tile"
               /\ fidx' = IF last THEN fidx + 1 ELSE fidx
    /\ UNCHANGED <<walkVars, arg, out, script, inputs, attempts>>


----------------------------------------------------------------------------
(* process_pixel_adventure_2.py: process_enemy_directory and
   process_sprite_sheet *)

\* the largest of a non-empty set of numbers, the smallest
Largest(S) == CHOOSE a \in S : \A b \in S : a >= b

Smallest(S) == CHOOSE a \in S : \A b \in S : a <= b

\* lines 38-47: re.match of ^(.+?)\s+\((\d+)x(\d+)\)\.png$ . The tail
\* ")" ".png" ends the name; the two runs of digits, which hold neither "x"
\* nor "(", are found from the right; whitespace must stand before "(", and
\* the lazy first group is the shortest prefix that only whitespace follows.
NoMatch ==
    [match |-> FALSE, animation_name |-> <<>>, frame_width |-> 0,
     frame_height |-> 0]

parse_filename(filename) ==
    LET n == Len(filename)
        e == n - 4                       \* where ")" must stand
        nonDigit(hi) == {k \in 1..hi : ~IsDigit(filename[k])}
    IN IF ~(n >= 5 /\ SubSeq(filename, e, n) = <<")">> \o DotPng)
          \/ nonDigit(e - 1) = {}
       THEN NoMatch
       ELSE LET x == Largest(nonDigit(e - 1))        \* where "x" must stand
            IN IF filename[x] # "x" \/ x = e - 1 \/ nonDigit(x - 1) = {}
               THEN NoMatch
               ELSE LET o == Largest(nonDigit(x - 1))    \* where "(" must stand
                        g == {k \in 1..(o - 2) :
                                \A m \in (k + 1)..(o - 1) :
                                    IsSpace(filename[m])}
                    IN IF filename[o] # "(" \/ o = x - 1 \/ g = {}
                       THEN NoMatch
                       ELSE [match |-> TRUE,
                             animation_name |->
                                strip(SubSeq(filename, 1, Smallest(g))),
                             frame_width |->
                                int(SubSeq(filename, o + 1, x - 1)),
                             frame_height |->
                                int(SubSeq(filename, x + 1, e - 1))]

\* lines 97-100: the crop rectangle of a frame
FrameBox_fromOne(frame_idx, frame_width, frame_height) ==
    <<(frame_idx + 1) * frame_width, 0,
      (frame_idx + 1) * frame_width + frame_width, frame_height>>

FrameBox(frame_idx, frame_width, frame_height) ==
    <<frame_idx * frame_width, 0,
      frame_idx * frame_width + frame_width, frame_height>>

\* lines 106-107
FrameFilename_fromZero(frame_idx) == str(frame_idx) \o DotPng

FrameFilename(frame_idx) == str(frame_idx + 1) \o DotPng

\* lines 123-132
Pa2ListDir ==
    /\ pc = "process_pixel_adventure_2"
    /\ LET png_files == PngFiles(inputs.files)
       IN IF png_files = <<>>
          THEN /\ stdout' = stdout \o <<Line("Processing enemy", <<>>, 0),
                                        Line("No PNG files", <<>>, 0)>>
               /\ pc' = "pa2_returned"
               /\ UNCHANGED <<loc, fidx>>
          ELSE /\ stdout' = Append(stdout, Line("Processing enemy", <<>>, 0))
               /\ loc' = [loc EXCEPT !.png_files = png_files]
               /\ fidx' = 1
               /\ pc' = "pa2_file"
    /\ UNCHANGED <<walkVars, arg, out, script, inputs, written, attempts>>

\* lines 135-137, and lines 59-64 of process_sprite_sheet
Pa2NextFile ==
    /\ pc = "pa2_file"
    /\ IF fidx > Len(loc.png_files)
       THEN /\ pc' = "pa2_returned"
            /\ UNCHANGED <<loc, fidx, stdout>>
       ELSE LET parsed == parse_filename(CurFile.name)
            IN IF ~parsed.match \/ parsed.animation_name = <<>>
               THEN /\ stdout' = Append(stdout,
                                        Line("Skipping", CurFile.name, 0))
                    /\ fidx' = fidx + 1
                    /\ pc' = "pa2_file"
                    /\ UNCHANGED loc
               ELSE /\ loc' = [loc EXCEPT
                                 !.name = parsed.animation_name,
                                 !.frame_width = parsed.frame_width,
                                 !.frame_height = parsed.frame_height]
                    /\ pc' = "pa2_open"
                    /\ UNCHANGED <<fidx, stdout>>
    /\ UNCHANGED <<walkVars, arg, out, script, inputs, written, attempts>>

\* lines 66-92; the division of line 80 raises ZeroDivisionError when the
\* name gives a frame width of 0, and nothing in process_sprite_sheet or
\* process_enemy_directory catches it
Pa2Open ==
    /\ pc = "pa2_open"
    /\ attempts' = Append(attempts, Attempt("open", fidx))
    /\ IF ~CurFile.openable
       THEN /\ stdout' = Append(stdout, Line("Error opening", CurFile.name, 0))
            /\ fidx' = fidx + 1
            /\ pc' = "pa2_file"
            /\ UNCHANGED loc
       ELSE LET sheet_width == CurFile.width
                sheet_height == CurFile.height
                heightWarning ==
                    IF sheet_height # loc.frame_height
                    THEN <<Line("Warning height", CurFile.name, 0)>>
                    ELSE <<>>
            IN IF loc.frame_width = 0
               THEN /\ stdout' = stdout \o heightWarning
                    /\ loc' = [loc EXCEPT !.width = sheet_width,
                                          !.height = sheet_height]
                    /\ fidx' = fidx
                    /\ pc' = "pa2_raised"
               ELSE /\ stdout' =
                        stdout \o heightWarning
                          \o (IF sheet_width % loc.frame_width # 0
                              THEN <<Line("Warning width", CurFile.name, 0)>>
                              ELSE <<>>)
                          \o <<Line("Processing", CurFile.name,
                                    sheet_width \div loc.frame_width)>>
                    /\ loc' = [loc EXCEPT
                                 !.width = sheet_width,
                                 !.height = sheet_height,
                                 !.num_frames =
                                    sheet_width \div loc.frame_width,
                                 !.count = 0,
                                 !.made = @ \cup {Directory(inputs.dir,
                                                            loc.name)}]
                    /\ fidx' = fidx
                    /\ pc' = "pa2_frame"
    /\ UNCHANGED <<walkVars, arg, out, script, inputs, written>>

\* lines 95-112: one pass of the loop body, or the end of the loop; a save
\* that raises is caught nowhere below main
Pa2Frame ==
    /\ pc = "pa2_frame"
    /\ IF loc.count >= loc.num_frames
       THEN /\ fidx' = fidx + 1
            /\ pc' = "pa2_file"
            /\ UNCHANGED <<loc, written, stdout>>
       ELSE IF SaveRaises
            THEN /\ pc' = "pa2_raised"
                 /\ UNCHANGED <<loc, written, stdout, fidx>>
            ELSE /\ written' = Append(written,
                        Output(CurFile.name, inputs.dir, loc.name,
                               FrameFilename(loc.count),
                               FrameBox(loc.count, loc.frame_width,
                                        loc.frame_height)))
                 /\ stdout' = Append(stdout,
                                     Line("Saved", FrameFilename(loc.count),
                                          0))
                 /\ loc' = [loc EXCEPT !.count = @ + 1]
                 /\ pc' = "pa2_frame"
                 /\ fidx' = fidx
    /\ UNCHANGED <<walkVars, arg, out, script, inputs, attempts>>

NextSlice ==
    \/ TexListDir
    \/ TexNextFile
    \/ TexOpen
    \/ TexTile
    \/ TexReturn
    \/ SprMain
    \/ SprNextFile
    \/ SprOpen
    \/ SprTile
    \/ Pa2ListDir
    \/ Pa2NextFile
    \/ Pa2Open
    \/ Pa2Frame

SpecSlice == InitSlice /\ [][NextSlice]_vars


----------------------------------------------------------------------------
(* The command lines of process_textures.py and process_pixel_adventure_2.py:
   main over a directory of material or enemy directories *)

CliScripts == {"process_textures", "process_pixel_adventure_2"}

\* the characters of file names in the order of their code points
CodeOrder ==
    <<" ", "(", ")", ".">> \o Digits \o UpperCase \o <<"_">> \o LowerCase

Ord(c) == CHOOSE k \in 1..Len(CodeOrder) : CodeOrder[k] = c

\* a < b for two strings, as sorted() and list.sort() compare them
RECURSIVE LessText(_, _)
LessText(a, b) ==
    IF b = <<>> THEN FALSE
    ELSE IF a = <<>> THEN TRUE
    ELSE IF a[1] # b[1] THEN Ord(a[1]) < Ord(b[1])
    ELSE LessText(Tail(a), Tail(b))

\* sorted(items), by the name of the item
RECURSIVE sorted(_)
sorted(items) ==
    IF items = <<>> THEN <<>>
    ELSE LET first == CHOOSE k \in 1..Len(items) :
                        \A m \in 1..Len(items) :
                            ~LessText(items[m].name, items[k].name)
         IN <<items[first]>>
              \o sorted([k \in 1..(Len(items) - 1) |->
                            IF k < first THEN items[k] ELSE items[k + 1]])

\* str.startswith('.')
Hidden(name) == name # <<>> /\ name[1] = "."

\* an entry of the directory that main lists
Item(name, isdir, files) == [name |-> name, isdir |-> isdir, files |-> files]

\* the directories main works on: lines 149-153 of process_textures.py,
\* lines 197-201 of process_pixel_adventure_2.py
Subdirectories(items) ==
    SelectSeq(items, LAMBDA d : d.isdir /\ ~Hidden(d.name))

\* one or two entries with different names, in any order
Roots(items) ==
    {<<>>} \cup {<<a>> : a \in items}
        \cup {q \in items \X items : q[1].name # q[2].name}

Stone == <<"s", "t", "o", "n", "e">>

Wood == <<"W", "o", "o", "d">>

\* what a material directory holds
MaterialFiles ==
    LET sz == BatchSize("process_textures")
        sheet == GoodFile(TextureNames[1], sz[1], sz[2])
    IN {<<>>, <<sheet>>, <<[sheet EXCEPT !.save_fail_at = 2]>>,
        <<GoodFile(TextureNames[4], sz[1], sz[2])>>}

\* the entries of the Textures directory
MaterialItems ==
    {Item(n, TRUE, fs) : n \in {Stone, Wood}, fs \in MaterialFiles}
        \cup {Item(<<".", "c", "a", "c", "h", "e">>, TRUE,
                   <<GoodFile(TextureNames[1], 13, 9)>>),
              Item(<<"r", "e", "a", "d", "m", "e", ".", "t", "x", "t">>, FALSE, <<>>)}

\* --material: not given, a material in other letter case, no material
MaterialOptions == {None, <<"S", "T", "O", "N", "E">>, <<"b", "r", "i", "c", "k">>}

Bat == <<"B", "a", "t">>

AngryPig == <<"A", "n", "g", "r", "y", "P", "i", "g">>

\* what the enemy directory under study holds: one sheet of any name in any
\* variant, or one such sheet before or after a sheet of another name as
\* it is
EnemyFiles ==
    LET sz == BatchSize("process_pixel_adventure_2")
        names == 1..Len(SheetNames)
        any(k) == Variants(GoodFile(SheetNames[k], sz[1], sz[2]))
        good(k) == GoodFile(SheetNames[k], sz[1], sz[2])
    IN {<<>>}
        \cup UNION {{<<f>> : f \in any(k)} : k \in names}
        \cup UNION {{<<f, good(q[2])>> : f \in any(q[1])}
                        \cup {<<good(q[1]), f>> : f \in any(q[2])} :
                    q \in {r \in names \X names : r[1] # r[2]}}

\* the entries of the Enemies directory
EnemyItems ==
    LET sz == BatchSize("process_pixel_adventure_2")
        sheet == GoodFile(SheetNames[1], sz[1], sz[2])
    IN {Item(Bat, TRUE, fs) : fs \in EnemyFiles}
        \cup {Item(AngryPig, TRUE, <<sheet>>),
              Item(<<".", "g", "i", "t">>, TRUE, <<sheet>>),
              Item(<<"c", "r", "e", "d", "i", "t", "s", ".", "t", "x", "t">>, FALSE, <<>>)}

\* --enemy: not given, an enemy, no enemy
EnemyOptions == {None, Bat, AngryPig, <<"G", "h", "o", "s", "t">>}

InitCli ==
    /\ WalkInit
    /\ arg = <<>>
    /\ out = <<>>
    /\ script \in CliScripts
    /\ \/ /\ script = "process_textures"
          /\ inputs \in [dir : {<<>>}, files : {<<>>},
                         root_exists : BOOLEAN,
                         items : Roots(MaterialItems),
                         dry_run : BOOLEAN,
                         material : MaterialOptions]
       \/ /\ script = "process_pixel_adventure_2"
          /\ inputs \in [dir : {<<>>}, files : {<<>>},
                         root_exists : BOOLEAN,
                         items : Roots(EnemyItems),
                         list_enemies : BOOLEAN,
                         enemy : EnemyOptions]
    /\ inputs.root_exists \/ inputs.items = <<>>
    /\ pc = "main"
    /\ fidx = 0
    /\ loc = NoLocals
    /\ written = <<>>
    /\ stdout = <<>>
    /\ attempts = <<>>

\* the process ends with this status
Exit(status) ==
    /\ loc' = [loc EXCEPT !.exit_status = status]
    /\ pc' = "exited"

\* process_textures.main lines 131-166
TexMain ==
    /\ pc = "main"
    /\ script = "process_textures"
    /\ LET banner == <<Line("Texture Processing Script", <<>>, 0)>>
                        \o (IF inputs.dry_run
                            THEN <<Line("DRY RUN MODE", <<>>, 0)>>
                            ELSE <<>>)
           material_dirs == Subdirectories(inputs.items)
           wanted == SelectSeq(material_dirs,
                        LAMBDA d : lower(d.name) = lower(inputs.material))
       IN IF ~inputs.root_exists
          THEN /\ stdout' = Append(stdout, Line("Error", <<>>, 0))
               /\ Exit(1)
          ELSE IF material_dirs = <<>>
          THEN /\ stdout' = banner
                    \o <<Line("No material directories found", <<>>, 0)>>
               /\ Exit(1)
          ELSE IF inputs.material # None /\ wanted = <<>>
          THEN /\ stdout' = banner
                    \o <<Line("Material not found", inputs.material, 0)>>
               /\ Exit(1)
          ELSE /\ stdout' = banner
               /\ loc' = [loc EXCEPT
                            !.dirs = IF inputs.material # None
                                     THEN sorted(wanted)
                                     ELSE sorted(material_dirs),
                            !.didx = 1]
               /\ pc' = "tex_main_loop"
    /\ UNCHANGED <<walkVars, arg, out, script, inputs, fidx, written,
                   attempts>>

\* lines 169-183: the next material directory is listed (dry run) or
\* handed to process_material_directory, and after the last the script ends
TexMainLoop ==
    /\ pc = "tex_main_loop"
    /\ IF loc.didx > Len(loc.dirs)
       THEN /\ stdout' = IF inputs.dry_run THEN stdout
                         ELSE Append(stdout,
                                Line("Texture processing complete", <<>>, 0))
            /\ Exit(0)
            /\ UNCHANGED <<inputs, fidx>>
       ELSE LET material_dir == loc.dirs[loc.didx]
            IN IF inputs.dry_run
               THEN /\ stdout' = stdout
                        \o <<Line("Would process material",
                                  material_dir.name, 0),
                             Line("Found", material_dir.name,
                                  Len(PngFiles(material_dir.files)))>>
                    /\ loc' = [loc EXCEPT !.didx = @ + 1]
                    /\ pc' = "tex_main_loop"
                    /\ UNCHANGED <<inputs, fidx>>
               ELSE /\ inputs' = [inputs EXCEPT !.dir = material_dir.name,
                                                !.files = material_dir.files]
                    /\ fidx' = 0
                    /\ pc' = "process_textures"
                    /\ UNCHANGED <<loc, stdout>>
    /\ UNCHANGED <<walkVars, arg, out, script, written, attempts>>

\* line 178: process_material_directory has returned
TexMainBack ==
    /\ pc = "tex_returned"
    /\ loc' = [loc EXCEPT !.didx = @ + 1]
    /\ pc' = "tex_main_loop"
    /\ UNCHANGED <<walkVars, arg, out, script, inputs, fidx, written,
                   stdout, attempts>>

\* process_pixel_adventure_2.main lines 167-225 with the output directory
\* made before the enemies are listed
Pa2Main_makesDirFirst ==
    /\ pc = "main"
    /\ script = "process_pixel_adventure_2"
    /\ LET enemy_dirs == sorted(Subdirectories(inputs.items))
           parsed == Directory(<<>>, <<"parsed">>)
       IN IF ~inputs.root_exists
          THEN /\ stdout' = Append(stdout,
                                Line("Input directory not found", <<>>, 0))
               /\ Exit(1)
               /\ UNCHANGED <<inputs, fidx>>
          ELSE IF inputs.list_enemies
          THEN /\ stdout' = <<Line("Available enemies", <<>>,
                                   Len(enemy_dirs))>>
               /\ loc' = [loc EXCEPT !.exit_status = 0,
                                     !.made = @ \cup {parsed}]
               /\ pc' = "exited"
               /\ UNCHANGED <<inputs, fidx>>
          ELSE IF inputs.enemy # None
          THEN IF \A k \in 1..Len(enemy_dirs) :
                    enemy_dirs[k].name # inputs.enemy
               THEN /\ stdout' = <<Line("Input directory", <<>>, 0),
                                   Line("Enemy not found", inputs.enemy, 0)>>
                    /\ loc' = [loc EXCEPT !.exit_status = 1,
                                          !.made = @ \cup {parsed}]
                    /\ pc' = "exited"
                    /\ UNCHANGED <<inputs, fidx>>
               ELSE LET enemy == enemy_dirs[CHOOSE k \in 1..Len(enemy_dirs) :
                                    enemy_dirs[k].name = inputs.enemy]
                    IN /\ stdout' = <<Line("Input directory", <<>>, 0)>>
                       /\ loc' = [loc EXCEPT !.made = @ \cup {parsed},
                                             !.dirs = <<enemy>>,
                                             !.didx = 1]
                       /\ inputs' = [inputs EXCEPT !.dir = enemy.name,
                                                   !.files = enemy.files]
                       /\ fidx' = 0
                       /\ pc' = "process_pixel_adventure_2"
          ELSE /\ stdout' = <<Line("Input directory", <<>>, 0),
                              Line("Processing enemies", <<>>,
                                   Len(enemy_dirs))>>
               /\ loc' = [loc EXCEPT !.made = @ \cup {parsed},
                                     !.dirs = enemy_dirs,
                                     !.didx = 1]
               /\ pc' = "pa2_main_loop"
               /\ UNCHANGED <<inputs, fidx>>
    /\ UNCHANGED <<walkVars, arg, out, script, written, attempts>>

\* process_pixel_adventure_2.main lines 167-225: a missing input directory
\* returns 1; --list-enemies prints the enemies and returns 0; else the
\* output directory is made and the one enemy of --enemy, or every enemy,
\* is processed
Pa2Main ==
    /\ pc = "main"
    /\ script = "process_pixel_adventure_2"
    /\ LET enemy_dirs == sorted(Subdirectories(inputs.items))
           parsed == Directory(<<>>, <<"parsed">>)
       IN IF ~inputs.root_exists
          THEN /\ stdout' = Append(stdout,
                                Line("Input directory not found", <<>>, 0))
               /\ Exit(1)
               /\ UNCHANGED <<inputs, fidx>>
          ELSE IF inputs.list_enemies
          THEN /\ stdout' = <<Line("Available enemies", <<>>,
                                   Len(enemy_dirs))>>
               /\ Exit(0)
               /\ UNCHANGED <<inputs, fidx>>
          ELSE IF inputs.enemy # None
          THEN IF \A k \in 1..Len(enemy_dirs) :
                    enemy_dirs[k].name # inputs.enemy
               THEN /\ stdout' = <<Line("Input directory", <<>>, 0),
                                   Line("Enemy not found", inputs.enemy, 0)>>
                    /\ loc' = [loc EXCEPT !.exit_status = 1,
                                          !.made = @ \cup {parsed}]
                    /\ pc' = "exited"
                    /\ UNCHANGED <<inputs, fidx>>
               ELSE LET enemy == enemy_dirs[CHOOSE k \in 1..Len(enemy_dirs) :
                                    enemy_dirs[k].name = inputs.enemy]
                    IN /\ stdout' = <<Line("Input directory", <<>>, 0)>>
                       /\ loc' = [loc EXCEPT !.made = @ \cup {parsed},
                                             !.dirs = <<enemy>>,
                                             !.didx = 1]
                       /\ inputs' = [inputs EXCEPT !.dir = enemy.name,
                                                   !.files = enemy.files]
                       /\ fidx' = 0
                       /\ pc' = "process_pixel_adventure_2"
          ELSE /\ stdout' = <<Line("Input directory", <<>>, 0),
                              Line("Processing enemies", <<>>,
                                   Len(enemy_dirs))>>
               /\ loc' = [loc EXCEPT !.made = @ \cup {parsed},
                                     !.dirs = enemy_dirs,
                                     !.didx = 1]
               /\ pc' = "pa2_main_loop"
               /\ UNCHANGED <<inputs, fidx>>
    /\ UNCHANGED <<walkVars, arg, out, script, written, attempts>>

\* lines 230-238: the next enemy is handed to process_enemy_directory, and
\* after the last main returns 0
Pa2MainLoop ==
    /\ pc = "pa2_main_loop"
    /\ IF loc.didx > Len(loc.dirs)
       THEN /\ stdout' = Append(stdout, Line("Processing complete", <<>>, 0))
            /\ Exit(0)
            /\ UNCHANGED <<inputs, fidx>>
       ELSE LET enemy == loc.dirs[loc.didx]
            IN /\ inputs' = [inputs EXCEPT !.dir = enemy.name,
                                           !.files = enemy.files]
               /\ fidx' = 0
               /\ pc' = "process_pixel_adventure_2"
               /\ UNCHANGED <<loc, stdout>>
    /\ UNCHANGED <<walkVars, arg, out, script, written, attempts>>

\* process_enemy_directory has returned: to line 237 from line 225, to
\* the next enemy from line 233
Pa2MainBack ==
    /\ pc = "pa2_returned"
    /\ IF inputs.enemy # None
       THEN /\ stdout' = Append(stdout, Line("Processing complete", <<>>, 0))
            /\ Exit(0)
       ELSE /\ loc' = [loc EXCEPT !.didx = @ + 1]
            /\ pc' = "pa2_main_loop"
            /\ UNCHANGED stdout
    /\ UNCHANGED <<walkVars, arg, out, script, inputs, fidx, written,
                   attempts>>

\* process_enemy_directory has raised: lines 234-235 catch it in the loop
\* over all enemies and the loop goes on; nothing catches it at line 225,
\* so it leaves main and the interpreter ends with a traceback and status 1
Pa2MainRaised ==
    /\ pc = "pa2_raised"
    /\ IF inputs.enemy # None
       THEN /\ loc' = [loc EXCEPT !.exit_status = 1]
            /\ pc' = "aborted"
            /\ UNCHANGED stdout
       ELSE /\ stdout' = Append(stdout,
                            Line("Error processing", inputs.dir, 0))
            /\ loc' = [loc EXCEPT !.didx = @ + 1]
            /\ pc' = "pa2_main_loop"
    /\ UNCHANGED <<walkVars, arg, out, script, inputs, fidx, written,
                   attempts>>

NextCli ==
    \/ TexMain
    \/ TexMainLoop
    \/ TexMainBack
    \/ TexListDir
    \/ TexNextFile
    \/ TexOpen
    \/ TexTile
    \/ TexReturn
    \/ Pa2Main
    \/ Pa2MainLoop
    \/ Pa2MainBack
    \/ Pa2MainRaised
    \/ Pa2ListDir
    \/ Pa2NextFile
    \/ Pa2Open
    \/ Pa2Frame

SpecCli == InitCli /\ [][NextCli]_vars

----------------------------------------------------------------------------
(* Properties of the grid slicers *)

GridSlicers == {"process_textures", "process_sprites"}

\* the grid of a slicer, as rows and columns
Rows(s) == IF s \in GridSlicers THEN 4 ELSE 1

Columns(s) == IF s = "process_textures" THEN 6 ELSE 3

\* the files written from one source file, in the order written
TilesOf(name) == SelectSeq(written, LAMBDA o : o.src = name)

\* the run of the slicer is over
SliceOver == pc \in {"tex_returned", "spr_returned", "pa2_returned"}

\* the run of the slicer has ended, by a return or by an exception
SliceEnded == SliceOver \/ pc = "pa2_raised"

\* a source file that the slicer reads and that neither fails to open nor
\* fails to save
Sliceable(f) ==
    /\ f.exists
    /\ f.openable
    /\ f.save_fail_at = 0
    /\ endswith(lower(f.name), DotPng)

InputIdx == 1..Len(inputs.files)

\* C12: in process_textures (4 rows, 6 columns) and process_sprites (4 rows,
\* 3 columns) the tile written for row r and column c of a W x H image is
\* the crop (c*tile_w, r*tile_h, (c+1)*tile_w, (r+1)*tile_h) with
\* tile_w = floor(W / C) and tile_h = floor(H / R), and a finished image has
\* a tile for every r in [0,R) and c in [0,C).
C12_CropRectangle ==
    script \in GridSlicers =>
        \A k \in InputIdx :
            LET f == inputs.files[k]
                R == Rows(script)
                C == Columns(script)
                tile_w == f.width \div C
                tile_h == f.height \div R
                t == TilesOf(f.name)
            IN /\ \A n \in 1..Len(t) :
                    LET r == (n - 1) \div C
                        c == (n - 1) % C
                    IN /\ r < R
                       /\ t[n].box = <<c * tile_w, r * tile_h,
                                       (c + 1) * tile_w, (r + 1) * tile_h>>
               /\ (SliceOver /\ Sliceable(f)) => Len(t) = R * C

\* a 13 x 9 texture was cut into 24 tiles of 2 x 2, the last at (10, 6)
C12_Witness ==
    /\ script = "process_textures"
    /\ pc = "tex_returned"
    /\ \E k \in InputIdx :
        /\ inputs.files[k].width = 13
        /\ inputs.files[k].height = 9
        /\ Len(TilesOf(inputs.files[k].name)) = 24
        /\ TilesOf(inputs.files[k].name)[24].box = <<10, 6, 12, 8>>


\* the pixels of a crop rectangle (left, top, right, bottom)
Pixels(box) == (box[1]..(box[3] - 1)) \X (box[2]..(box[4] - 1))

\* the rows and columns that the name of the n-th tile written from a
\* source file stands for
NamedAt(o, n) ==
    {rc \in (0..3) \X (0..5) :
        IF script = "process_textures"
        THEN o.file = TextureFilename(splitext(o.src), rc[1], rc[2], n - 1)
        ELSE /\ rc[2] <= 2
             /\ o.file = SpriteFilename(splitext(o.src), sides[rc[1] + 1],
                                        rc[2] + 1)}

\* C13: the tiles of a W x H image tile the top-left region of
\* C*floor(W/C) by R*floor(H/R) pixels: no two tiles share a pixel, no tile
\* holds a pixel outside the region, every pixel of the region lies in a tile
\* once all R*C tiles are written, and each tile placed at the row and column
\* of its name lands on the pixels it was cut from.
C13_Partition ==
    (script \in GridSlicers /\ SliceOver) =>
        \A k \in InputIdx :
            LET f == inputs.files[k]
                R == Rows(script)
                C == Columns(script)
                tile_w == f.width \div C
                tile_h == f.height \div R
                region == (0..(C * tile_w - 1)) \X (0..(R * tile_h - 1))
                t == TilesOf(f.name)
            IN (f.width <= MaxDim /\ f.height <= MaxDim) =>
                /\ \A n \in 1..Len(t) :
                    /\ Pixels(t[n].box) \subseteq region
                    /\ \A m \in (n + 1)..Len(t) :
                        Pixels(t[n].box) \cap Pixels(t[m].box) = {}
                    /\ LET named == NamedAt(t[n], n)
                       IN \E rc \in named :
                            /\ named = {rc}
                            /\ t[n].box[1] = rc[2] * tile_w
                            /\ t[n].box[2] = rc[1] * tile_h
                            /\ t[n].box[3] - t[n].box[1] = tile_w
                            /\ t[n].box[4] - t[n].box[2] = tile_h
                /\ Len(t) = R * C =>
                    \A px \in region : \E n \in 1..Len(t) :
                        px \in Pixels(t[n].box)

\* a 7 x 8 sprite sheet was cut into 12 frames of 2 x 2 that cover the
\* columns 0 to 5; the column 6 is in no frame
C13_Witness ==
    /\ script = "process_sprites"
    /\ pc = "spr_returned"
    /\ inputs.files[1].width = 7
    /\ inputs.files[1].height = 8
    /\ Len(TilesOf(inputs.files[1].name)) = 12
    /\ \E n \in 1..12 : <<5, 7>> \in Pixels(TilesOf(inputs.files[1].name)[n].box)
    /\ \A n \in 1..12 :
        <<6, 0>> \notin Pixels(TilesOf(inputs.files[1].name)[n].box)


\* the numbers written in a file name, left to right
RECURSIVE DigitRuns(_, _, _)
DigitRuns(s, k, run) ==
    LET done == IF run = <<>> THEN <<>> ELSE <<int(run)>>
    IN IF k > Len(s) THEN done
       ELSE IF IsDigit(s[k]) THEN DigitRuns(s, k + 1, Append(run, s[k]))
       ELSE done \o DigitRuns(s, k + 1, <<>>)

NumbersIn(file) == DigitRuns(file, 1, <<>>)

\* C14: numbering is 1-based and contiguous. In split_texture_image the
\* n-th tile written from an image carries the number n, which is
\* row*6 + col + 1 for the row and column in its name, and a finished image
\* uses exactly 1..24; in process_pixel_adventure_2 the n-th frame written
\* from a sheet is the n-th from the left and is saved as n.png, and a
\* finished sheet of N frames uses exactly 1..N.
C14_Numbering ==
    /\ (script = "process_textures" /\ SliceEnded) =>
        \A k \in InputIdx :
            LET f == inputs.files[k]
                t == TilesOf(f.name)
            IN /\ \A n \in 1..Len(t) :
                    LET nums == NumbersIn(t[n].file)
                    IN /\ Len(nums) = 3
                       /\ nums[3] = n
                       /\ nums[3] = (nums[1] - 1) * 6 + (nums[2] - 1) + 1
                       /\ nums[1] \in 1..4
                       /\ nums[2] \in 1..6
               /\ Sliceable(f) =>
                    {NumbersIn(t[n].file)[3] : n \in 1..Len(t)} = 1..24
    /\ (script = "process_pixel_adventure_2" /\ SliceEnded) =>
        \A k \in InputIdx :
            LET f == inputs.files[k]
                t == TilesOf(f.name)
                parsed == parse_filename(f.name)
            IN /\ \A n \in 1..Len(t) :
                    /\ NumbersIn(t[n].file) = <<n>>
                    /\ t[n].box[1] = (n - 1) * parsed.frame_width
               /\ (SliceOver /\ Sliceable(f) /\ parsed.match
                        /\ parsed.animation_name # <<>>) =>
                    /\ Len(t) = f.width \div parsed.frame_width
                    /\ {NumbersIn(t[n].file)[1] : n \in 1..Len(t)}
                            = 1..(f.width \div parsed.frame_width)

\* a sheet "Hit (2x3).png" of width 13 was cut into the frames 1 to 6
C14_Witness ==
    /\ script = "process_pixel_adventure_2"
    /\ pc = "pa2_returned"
    /\ Len(inputs.files) = 1
    /\ inputs.files[1].name = SheetNames[3]
    /\ inputs.files[1].width = 13
    /\ Len(written) = 6
    /\ written[6].file = <<"6">> \o DotPng


\* the 1200 x 800 image of the example, where it is an input
IsExample(f) ==
    /\ f.width = 1200
    /\ f.height = 800
    /\ endswith(lower(f.name), DotPng)

\* the name the example gives to the tile of row r and column c (1-based)
\* with the sequential index n: <base>_r<r>c<c>_<two digits>.png
ExampleName(f, r, c, n) ==
    SubSeq(f.name, 1, Len(f.name) - 4)
        \o <<"_", "r", Digits[r + 1], "c", Digits[c + 1], "_",
             Digits[(n \div 10) + 1], Digits[(n % 10) + 1]>>
        \o <<".", "p", "n", "g">>

\* C15: a 1200 x 800 image yields exactly 24 tiles of 200 x 200, named
\* r1c1 .. r4c6 with a two-digit index 01 .. 24 in row-major order, no
\* divisibility warning is printed and split_texture_image returns 24.
C15_Example ==
    (script = "process_textures" /\ SliceOver) =>
        \A k \in InputIdx :
            IsExample(inputs.files[k]) =>
                /\ Len(written) = 24
                /\ \A r \in 1..4 : \A c \in 1..6 :
                    LET n == (r - 1) * 6 + c
                    IN /\ written[n].file = ExampleName(inputs.files[k], r, c, n)
                       /\ written[n].box[3] - written[n].box[1] = 200
                       /\ written[n].box[4] - written[n].box[2] = 200
                /\ \A m \in 1..Len(stdout) :
                    stdout[m].tag \notin {"Warning", "Expected", "Error"}
                /\ loc.returned = 24

\* stone.png of 1200 x 800 was split: the first tile is stone_r1c1_01.png,
\* the last stone_r4c6_24.png
C15_Witness ==
    /\ script = "process_textures"
    /\ pc = "tex_returned"
    /\ Len(inputs.files) = 1
    /\ inputs.files[1].name = TextureNames[1]
    /\ inputs.files[1].width = 1200
    /\ inputs.files[1].height = 800
    /\ Len(written) = 24
    /\ written[1].file = <<"s", "t", "o", "n", "e", "_", "r", "1", "c", "1", "_", "0", "1", ".", "p", "n", "g">>
    /\ written[24].file = <<"s", "t", "o", "n", "e", "_", "r", "4", "c", "6", "_", "2", "4", ".", "p", "n", "g">>
    /\ written[24].box = <<1000, 600, 1200, 800>>


\* animation names and frame sizes (at least 1) that a sheet name is built of
AnimationNames == {<<"R", "u", "n">>, <<"H", "i", "t">>}

FrameSizes == {2, 3, 32, 64}

\* the file name "<name> (<w>x<h>).png"
SheetName(name, w, h) ==
    name \o <<" ", "(">> \o str(w) \o <<"x">> \o str(h) \o <<")">> \o DotPng

\* C16: a sheet named "<name> (<w>x<h>).png" (w at least 1) of width S that
\* opens and saves is split into floor(S / w) frames, the i-th (1-based)
\* being the crop (w*(i-1), 0, w*i, h) saved as i.png under <enemy>/<name>/;
\* "Run (32x32).png" of width 256 yields 8 frames of 32 x 32, 1.png to 8.png.
C16_AnimationSheet ==
    (script = "process_pixel_adventure_2" /\ SliceEnded) =>
        \A k \in InputIdx :
            \A name \in AnimationNames : \A w \in FrameSizes, h \in FrameSizes :
                LET f == inputs.files[k]
                    t == TilesOf(f.name)
                IN f.name = SheetName(name, w, h) =>
                    /\ (SliceOver /\ Sliceable(f)) => Len(t) = f.width \div w
                    /\ \A n \in 1..Len(t) :
                        /\ n <= f.width \div w
                        /\ t[n].box = <<w * (n - 1), 0, w * n, h>>
                        /\ t[n].file = str(n) \o DotPng
                        /\ t[n].dir = inputs.dir
                        /\ t[n].sub = name
                    /\ (SliceOver /\ Sliceable(f) /\ name = <<"R", "u", "n">> /\ w = 32
                            /\ h = 32 /\ f.width = 256) =>
                        /\ Len(t) = 8
                        /\ \A n \in 1..8 :
                            /\ t[n].file = <<Digits[n + 1]>> \o <<".", "p", "n", "g">>
                            /\ t[n].box[3] - t[n].box[1] = 32
                            /\ t[n].box[4] - t[n].box[2] = 32

\* "Run (32x32).png" of 256 x 32 was cut into 8 frames under Bat/Run/
C16_Witness ==
    /\ script = "process_pixel_adventure_2"
    /\ pc = "pa2_returned"
    /\ Len(inputs.files) = 1
    /\ inputs.files[1].name = <<"R", "u", "n", " ", "(", "3", "2", "x", "3", "2", ")", ".", "p", "n", "g">>
    /\ inputs.files[1].width = 256
    /\ Len(written) = 8
    /\ written[8].file = <<"8", ".", "p", "n", "g">>
    /\ written[8].box = <<224, 0, 256, 32>>
    /\ written[8].dir = "Bat"
    /\ written[8].sub = <<"R", "u", "n">>


\* a dimension of the image is not a multiple of the grid or frame size
Inexact(f) ==
    CASE script = "process_textures" -> f.width % 6 # 0 \/ f.height % 4 # 0
      [] script = "process_sprites" -> f.width % 3 # 0 \/ f.height % 4 # 0
      [] script = "process_pixel_adventure_2" ->
            LET parsed == parse_filename(f.name)
            IN \/ f.width % parsed.frame_width # 0
               \/ f.height % parsed.frame_height # 0

\* the slicer cuts this file into tiles
Sliced(f) ==
    /\ Sliceable(f)
    /\ script = "process_pixel_adventure_2" =>
        LET parsed == parse_filename(f.name)
        IN /\ parsed.match
           /\ parsed.animation_name # <<>>
           /\ parsed.frame_width > 0
           /\ parsed.frame_height > 0

\* the number of tiles the slicer cuts from the file
TileCount(f) ==
    IF script = "process_pixel_adventure_2"
    THEN f.width \div parse_filename(f.name).frame_width
    ELSE Rows(script) * Columns(script)

\* a warning about the dimensions of the file was printed
Warned(f) ==
    \E m \in 1..Len(stdout) :
        /\ stdout[m].file = f.name
        /\ stdout[m].tag \in {"Warning", "Warning width", "Warning height"}

\* C17: in every slicer (process_textures, process_sprites,
\* process_pixel_adventure_2), when a dimension of an image is not a multiple
\* of the grid or frame size, the slicer prints a warning and still writes
\* all of its tiles.
C17_WarnedAndSliced ==
    SliceOver =>
        \A k \in InputIdx :
            LET f == inputs.files[k]
            IN (Sliced(f) /\ Inexact(f)) =>
                /\ Warned(f)
                /\ Len(TilesOf(f.name)) = TileCount(f)


\* the files that the slicer takes up, in its order
FileList ==
    IF script = "process_sprites" THEN inputs.files
    ELSE PngFiles(inputs.files)

\* the calls of Image.open on the k-th file
OpensOf(k) ==
    {a \in 1..Len(attempts) :
        attempts[a].step = "open" /\ attempts[a].input = k}

\* the loop came to the k-th file: it tried to open it or printed about it
Reached(k) ==
    \/ OpensOf(k) # {}
    \/ \E m \in 1..Len(stdout) : stdout[m].file = FileList[k].name

\* C18: in every slicer and for every list of files, when opening file k
\* fails no tile of k is written, an error message names k, the open of k
\* was called exactly once, the loop goes on to the next file, and every
\* later file that can be sliced has all of its tiles when the run returns.
C18_OpenFailureIsLocal ==
    SliceEnded =>
        \A k \in 1..Len(FileList) :
            LET f == FileList[k]
            IN (OpensOf(k) # {} /\ ~f.openable) =>
                /\ TilesOf(f.name) = <<>>
                /\ Cardinality(OpensOf(k)) = 1
                /\ \E m \in 1..Len(stdout) :
                    /\ stdout[m].file = f.name
                    /\ stdout[m].tag \in {"Error", "Error opening"}
                /\ k < Len(FileList) => Reached(k + 1)
                /\ \A n \in (k + 1)..Len(FileList) :
                    (SliceOver /\ Sliced(FileList[n])) =>
                        Len(TilesOf(FileList[n].name)) = TileCount(FileList[n])

\* bull.png could not be opened and cow.png was cut into its 12 frames
C18_Witness ==
    /\ script = "process_sprites"
    /\ pc = "spr_returned"
    /\ inputs.files[1].exists
    /\ ~inputs.files[1].openable
    /\ Sliceable(inputs.files[2])
    /\ attempts = <<[step |-> "open", input |-> 1],
                    [step |-> "open", input |-> 2]>>
    /\ Len(written) = 12
    /\ \A n \in 1..12 : written[n].src = sprite_files[2]


----------------------------------------------------------------------------
(* convert_obj_to_glb.py, convert_blend_to_glb.py and export_stickman.py:
   the top-level function of each, on one input file *)

ConverterScripts ==
    {"convert_obj_to_glb", "convert_blend_to_glb", "export_stickman"}

\* what the converter functions leave alone
convKept ==
    <<pose_bones, pose, prefs, scene, roleBone, available_bones, i, j,
      cycle_pos, keys, printed, armature_obj, arg, out, script, inputs, fidx>>

convRest == <<convKept, written>>

InitConvert ==
    /\ WalkInit
    /\ arg = <<>>
    /\ out = <<>>
    /\ script \in ConverterScripts
    /\ inputs = <<>>
    /\ pc = script
    /\ fidx = 0
    /\ loc = NoLocals
    /\ written = <<>>
    /\ stdout = <<>>
    /\ attempts = <<>>

\* return value and the end of the function
Return(v) ==
    /\ ret' = v
    /\ pc' = "conv_done"

\* the number of the file that convert_obj_to_glb works on: the one file
\* of the command line, or the file the batch loop is at
ObjInput == IF fidx = 0 THEN 1 ELSE fidx

\* obj_filename
ObjFilename ==
    IF fidx = 0 THEN <<"m", "o", "d", "e", "l", ".", "o", "b", "j">> ELSE loc.dirs[fidx].name

\* obj_dir: None on the command line, kenney_dir in the batch
ObjDir == IF fidx = 0 THEN <<>> ELSE <<"O", "B", "J", " ", "f", "o", "r", "m", "a", "t">>

\* a step may leave the objects it was making in the scene when it raises
Maybe(objects) == {loc.objects, loc.objects \cup objects}

\* clear_scene lines 42-53 leaving the objects of earlier files in place
clear_scene_keepsImported == loc.objects \ {0}

\* clear_scene lines 42-53: every object is selected and deleted
clear_scene == {}

\* convert_obj_to_glb lines 59-81: the name is printed; clear_scene raises,
\* or it empties the scene and the file is missing or there
ObjStart ==
    /\ pc = "convert_obj_to_glb"
    /\ \/ /\ stdout' = Append(stdout, Line("CONVERTING", ObjFilename, 0))
          /\ pc' = "conv_raised"
          /\ UNCHANGED <<ret, loc>>
       \/ /\ stdout' = stdout \o <<Line("CONVERTING", ObjFilename, 0),
                                   Line("not found", ObjFilename, 0)>>
          /\ loc' = [loc EXCEPT !.objects = clear_scene]
          /\ Return(FALSE)
       \/ /\ stdout' = stdout \o <<Line("CONVERTING", ObjFilename, 0),
                                   Line("Loading", ObjFilename, 0)>>
          /\ loc' = [loc EXCEPT !.objects = clear_scene]
          /\ pc' = "obj_import"
          /\ ret' = ret
    /\ UNCHANGED <<convRest, result, attempts>>

\* lines 83-88: wm.obj_import returns, or raises and the fallback is next
ObjImport ==
    /\ pc = "obj_import"
    /\ attempts' = Append(attempts, Attempt("wm.obj_import", ObjInput))
    /\ \/ /\ loc' = [loc EXCEPT !.objects = @ \cup {ObjInput}]
          /\ pc' = "obj_analyze"
          /\ UNCHANGED stdout
       \/ /\ \E left \in Maybe({ObjInput}) :
                loc' = [loc EXCEPT !.objects = left]
          /\ stdout' = Append(stdout, Line("Failed to load OBJ file", <<>>, 0))
          /\ pc' = "obj_fallback"
    /\ UNCHANGED <<convRest, result, ret>>

\* lines 89-94 with a fallback that is tried again when it raises
ObjFallback_again ==
    /\ pc = "obj_fallback"
    /\ attempts' = Append(attempts, Attempt("import_scene.obj", ObjInput))
    /\ \/ /\ loc' = [loc EXCEPT !.objects = @ \cup {ObjInput}]
          /\ pc' = "obj_analyze"
          /\ UNCHANGED <<stdout, ret>>
       \/ /\ stdout' = Append(stdout,
                              Line("Fallback import also failed", <<>>, 0))
          /\ Len(attempts) < 3
          /\ pc' = "obj_fallback"
          /\ ret' = ret
          /\ UNCHANGED loc
       \/ /\ stdout' = Append(stdout,
                              Line("Fallback import also failed", <<>>, 0))
          /\ Len(attempts) >= 3
          /\ Return(FALSE)
          /\ UNCHANGED loc
    /\ UNCHANGED <<convRest, result>>

\* lines 89-94: the old importer is called on the same file; it returns, or
\* raises and the function returns False
ObjFallback ==
    /\ pc = "obj_fallback"
    /\ attempts' = Append(attempts, Attempt("import_scene.obj", ObjInput))
    /\ \/ /\ loc' = [loc EXCEPT !.objects = @ \cup {ObjInput}]
          /\ pc' = "obj_analyze"
          /\ UNCHANGED <<stdout, ret>>
       \/ /\ \E left \in Maybe({ObjInput}) :
                loc' = [loc EXCEPT !.objects = left]
          /\ stdout' = Append(stdout,
                              Line("Fallback import also failed", <<>>, 0))
          /\ Return(FALSE)
    /\ UNCHANGED <<convRest, result>>

\* lines 96-134: no mesh in the scene returns False; makedirs or select_all
\* raises; or the export is next
ObjAnalyze ==
    /\ pc = "obj_analyze"
    /\ \/ /\ stdout' = Append(stdout, Line("No mesh objects", <<>>, 0))
          /\ Return(FALSE)
       \/ /\ pc' = "conv_raised"
          /\ UNCHANGED <<ret, stdout>>
       \/ /\ stdout' = Append(stdout, Line("Exporting", <<>>, 0))
          /\ pc' = "obj_export"
          /\ ret' = ret
    /\ UNCHANGED <<convRest, result, loc, attempts>>

\* lines 98-107: the GLB of the file, with what it holds
ObjOutput(objects) ==
    Output(ObjFilename, ObjDir, IF fidx = 0 THEN <<>> ELSE <<"G", "L", "B">>,
           splitext(ObjFilename) \o <<".", "g", "l", "b">>, objects)

\* lines 136-184: every object of the scene is exported (select_all of line
\* 131 with use_selection); the result of the export is not looked at; the
\* function returns True unless the export raises
ObjExport ==
    /\ pc = "obj_export"
    /\ attempts' = Append(attempts, Attempt("export_scene.gltf", ObjInput))
    /\ \/ \E r \in ExportResults :
            /\ result' = r
            /\ loc' = [loc EXCEPT !.main_export = r]
            /\ written' = IF r = "FINISHED"
                          THEN Append(written, ObjOutput(loc.objects))
                          ELSE written
            /\ stdout' = Append(stdout, Line("Successfully exported", <<>>, 0))
            /\ Return(TRUE)
       \/ /\ stdout' = Append(stdout, Line("Export failed", <<>>, 0))
          /\ loc' = [loc EXCEPT !.main_export = "RAISED"]
          /\ Return(FALSE)
          /\ UNCHANGED <<result, written>>
    /\ UNCHANGED convKept

\* convert_blend_to_glb lines 20-32
BlendStart ==
    /\ pc = "convert_blend_to_glb"
    /\ \/ /\ pc' = "conv_raised"
          /\ UNCHANGED <<ret, stdout>>
       \/ /\ stdout' = Append(stdout, Line("not found", <<>>, 0))
          /\ Return(FALSE)
       \/ /\ stdout' = Append(stdout, Line("Loading", <<>>, 0))
          /\ pc' = "blend_load"
          /\ ret' = ret
    /\ UNCHANGED <<convRest, result, loc, attempts>>

\* lines 34-38
BlendLoad ==
    /\ pc = "blend_load"
    /\ attempts' = Append(attempts, Attempt("open_mainfile", 1))
    /\ \/ /\ pc' = "blend_analyze"
          /\ UNCHANGED <<stdout, ret>>
       \/ /\ stdout' = Append(stdout, Line("Failed to load file", <<>>, 0))
          /\ Return(FALSE)
    /\ UNCHANGED <<convRest, result, loc>>

\* lines 40-133: no mesh returns False; a scene operator raises; or the
\* scene has some actions and maybe an armature, and the export is next
BlendAnalyze ==
    /\ pc = "blend_analyze"
    /\ \/ /\ stdout' = Append(stdout, Line("No mesh objects", <<>>, 0))
          /\ Return(FALSE)
          /\ UNCHANGED loc
       \/ /\ pc' = "conv_raised"
          /\ UNCHANGED <<ret, stdout, loc>>
       \/ \E n \in 0..MaxActions, armatures \in BOOLEAN :
            /\ loc' = [loc EXCEPT !.actions = n,
                                  !.export_animations = (n > 0 /\ armatures)]
            /\ stdout' = Append(stdout, Line("Exporting", <<>>, 0))
            /\ pc' = "blend_export"
            /\ ret' = ret
    /\ UNCHANGED <<convRest, result, attempts>>

\* lines 135-165 and 209-217: the main export finishes, and the exports of
\* the single actions follow or the function returns True; or it does not
\* finish, or raises, and the function returns False
BlendExport ==
    /\ pc = "blend_export"
    /\ attempts' = Append(attempts, Attempt("export_scene.gltf", 1))
    /\ \/ /\ result' = "FINISHED"
          /\ stdout' = Append(stdout, Line("Successfully exported", <<>>, 0))
          /\ loc' = [loc EXCEPT !.count = 0, !.main_export = "FINISHED"]
          /\ IF loc.export_animations /\ loc.actions > 1
             THEN pc' = "blend_actions" /\ ret' = ret
             ELSE Return(TRUE)
       \/ /\ result' = "CANCELLED"
          /\ stdout' = Append(stdout, Line("Export failed", <<>>, 0))
          /\ loc' = [loc EXCEPT !.main_export = "CANCELLED"]
          /\ Return(FALSE)
       \/ /\ stdout' = Append(stdout, Line("Export failed", <<>>, 0))
          /\ loc' = [loc EXCEPT !.main_export = "RAISED"]
          /\ Return(FALSE)
          /\ UNCHANGED result
    /\ UNCHANGED convRest

\* lines 169-209, one action per step: its export finishes or not, which is
\* only printed, or something raises and the function returns False; after
\* the last action the function returns True
BlendExportAction ==
    /\ pc = "blend_actions"
    /\ IF loc.count >= loc.actions
       THEN /\ Return(TRUE)
            /\ UNCHANGED <<loc, stdout, attempts, result>>
       ELSE /\ attempts' = Append(attempts,
                    Attempt("export_scene.gltf of an action", loc.count + 1))
            /\ \/ \E r \in ExportResults :
                    /\ result' = r
                    /\ stdout' = Append(stdout,
                            Line(IF r = "FINISHED" THEN "action exported"
                                 ELSE "Failed to export action", <<>>,
                                 loc.count + 1))
                    /\ loc' = [loc EXCEPT !.count = @ + 1]
                    /\ pc' = "blend_actions"
                    /\ ret' = ret
               \/ /\ stdout' = Append(stdout, Line("Export failed", <<>>, 0))
                  /\ Return(FALSE)
                  /\ UNCHANGED <<loc, result>>
    /\ UNCHANGED convRest

\* export_stickman lines 12-22
StickStart ==
    /\ pc = "export_stickman"
    /\ \/ /\ pc' = "conv_raised"
          /\ UNCHANGED <<ret, stdout>>
       \/ /\ stdout' = Append(stdout, Line("not found", <<>>, 0))
          /\ Return(FALSE)
       \/ /\ stdout' = Append(stdout, Line("Loading", <<>>, 0))
          /\ pc' = "stick_load"
          /\ ret' = ret
    /\ UNCHANGED <<convRest, result, loc, attempts>>

\* lines 23-36: open_mainfile is not guarded
StickLoad ==
    /\ pc = "stick_load"
    /\ attempts' = Append(attempts, Attempt("open_mainfile", 1))
    /\ \/ /\ pc' = "conv_raised"
          /\ UNCHANGED <<ret, stdout>>
       \/ /\ stdout' = Append(stdout, Line("No armature found", <<>>, 0))
          /\ Return(FALSE)
       \/ /\ stdout' = Append(stdout, Line("Found armature", <<>>, 0))
          /\ pc' = "stick_run"
          /\ ret' = ret
    /\ UNCHANGED <<convRest, result, loc>>

\* lines 38-64: scene is assigned only when the StickMan_Run action exists
StickSetRun ==
    /\ pc = "stick_run"
    /\ \/ /\ pc' = "conv_raised"
          /\ UNCHANGED <<stdout, loc>>
       \/ \E run_action \in BOOLEAN :
            /\ loc' = [loc EXCEPT !.scene_bound = run_action]
            /\ stdout' = Append(stdout,
                    Line(IF run_action THEN "Set active animation"
                         ELSE "StickMan_Run animation not found", <<>>, 0))
            /\ pc' = "stick_export"
    /\ UNCHANGED <<convRest, result, ret, attempts>>

\* lines 66-87 and 117-119
StickExport ==
    /\ pc = "stick_export"
    /\ attempts' = Append(attempts, Attempt("export_scene.gltf", 1))
    /\ \/ /\ pc' = "conv_raised"
          /\ loc' = [loc EXCEPT !.main_export = "RAISED"]
          /\ UNCHANGED <<ret, stdout, result>>
       \/ /\ result' = "CANCELLED"
          /\ loc' = [loc EXCEPT !.main_export = "CANCELLED"]
          /\ stdout' = Append(stdout, Line("GLB export failed", <<>>, 0))
          /\ Return(FALSE)
       \/ /\ result' = "FINISHED"
          /\ loc' = [loc EXCEPT !.main_export = "FINISHED"]
          /\ stdout' = Append(stdout, Line("Successfully exported", <<>>, 0))
          /\ pc' = "stick_idle"
          /\ ret' = ret
    /\ UNCHANGED convRest

\* lines 89-125: without the idle action the function returns True; with it
\* line 94 reads scene, which raises NameError when it was never assigned,
\* and the idle export follows, whose result is not looked at
StickIdle ==
    /\ pc = "stick_idle"
    /\ \/ /\ stdout' = Append(stdout, Line("StickMan export completed", <<>>, 0))
          /\ Return(TRUE)
          /\ UNCHANGED <<attempts, loc>>
       \/ /\ ~loc.scene_bound
          /\ loc' = [loc EXCEPT !.error = "NameError"]
          /\ pc' = "conv_raised"
          /\ UNCHANGED <<ret, stdout, attempts>>
       \/ /\ loc.scene_bound
          /\ attempts' = Append(attempts,
                                Attempt("export_scene.gltf of idle", 1))
          /\ \/ /\ pc' = "conv_raised"
                /\ UNCHANGED <<ret, stdout>>
             \/ /\ stdout' = stdout \o
                        <<Line("Also exported idle animation", <<>>, 0),
                          Line("StickMan export completed", <<>>, 0)>>
                /\ Return(TRUE)
          /\ UNCHANGED loc
    /\ UNCHANGED <<convRest, result>>

NextConvert ==
    \/ ObjStart
    \/ ObjImport
    \/ ObjFallback
    \/ ObjAnalyze
    \/ ObjExport
    \/ BlendStart
    \/ BlendLoad
    \/ BlendAnalyze
    \/ BlendExport
    \/ BlendExportAction
    \/ StickStart
    \/ StickLoad
    \/ StickSetRun
    \/ StickExport
    \/ StickIdle

----------------------------------------------------------------------------
(* convert_obj_to_glb.py: batch_convert_kenney_models *)

\* names that the pattern *.obj finds in the directory of the models
ObjNames ==
    {<<"t", "r", "e", "e", ".", "o", "b", "j">>,
     <<"r", "o", "c", "k", ".", "o", "b", "j">>,
     <<"B", "a", "r", "r", "e", "l", ".", "o", "b", "j">>}

InitBatch ==
    /\ WalkInit
    /\ arg = <<>>
    /\ out = <<>>
    /\ script = "batch_convert_kenney_models"
    /\ inputs \in [dir_exists : BOOLEAN,
                   files : Roots({Item(n, FALSE, <<>>) : n \in ObjNames})]
    /\ inputs.dir_exists \/ inputs.files = <<>>
    /\ pc = "batch"
    /\ fidx = 0
    /\ loc = NoLocals
    /\ written = <<>>
    /\ stdout = <<>>
    /\ attempts = <<>>

\* what the batch actions leave alone
batchKept ==
    <<pose_bones, pose, prefs, scene, roleBone, available_bones, i, j,
      cycle_pos, keys, printed, armature_obj, arg, out, script, inputs,
      written, result, attempts>>

\* batch_convert_kenney_models lines 190-211: without the directory or
\* without a file in it the function returns False; else the loop starts
\* at the first file in sorted order with success_count = 0
BatchStart ==
    /\ pc = "batch"
    /\ IF ~inputs.dir_exists
       THEN /\ stdout' = Append(stdout,
                                Line("Kenney directory not found", <<>>, 0))
            /\ ret' = FALSE
            /\ pc' = "batch_returned"
            /\ UNCHANGED <<loc, fidx>>
       ELSE IF inputs.files = <<>>
       THEN /\ stdout' = Append(stdout, Line("No OBJ files found", <<>>, 0))
            /\ ret' = FALSE
            /\ pc' = "batch_returned"
            /\ UNCHANGED <<loc, fidx>>
       ELSE /\ stdout' = Append(stdout,
                                Line("Found", <<>>, Len(inputs.files)))
            /\ loc' = [loc EXCEPT !.dirs = sorted(inputs.files), !.count = 0]
            /\ fidx' = 1
            /\ ret' = ret
            /\ pc' = "batch_file"
    /\ UNCHANGED batchKept

\* lines 212-219 for the next file, lines 223-235 after the last
BatchNextFile ==
    /\ pc = "batch_file"
    /\ IF fidx > Len(loc.dirs)
       THEN /\ stdout' = Append(stdout,
                                Line("BATCH CONVERSION COMPLETE", <<>>,
                                     loc.count))
            /\ ret' = (loc.count = Len(loc.dirs))
            /\ pc' = "batch_returned"
       ELSE /\ stdout' = Append(stdout,
                                Line("Processing", loc.dirs[fidx].name, fidx))
            /\ ret' = ret
            /\ pc' = "convert_obj_to_glb"
    /\ UNCHANGED <<batchKept, loc, fidx>>

\* lines 218-221: convert_obj_to_glb has returned
BatchCount ==
    /\ pc = "conv_done"
    /\ script = "batch_convert_kenney_models"
    /\ loc' = [loc EXCEPT !.count = IF ret THEN @ + 1 ELSE @]
    /\ stdout' = IF ret THEN stdout
                 ELSE Append(stdout, Line("Failed to convert",
                                          loc.dirs[fidx].name, 0))
    /\ fidx' = fidx + 1
    /\ pc' = "batch_file"
    /\ UNCHANGED <<batchKept, ret>>

NextBatch ==
    \/ BatchStart
    \/ BatchNextFile
    \/ BatchCount
    \/ ObjStart
    \/ ObjImport
    \/ ObjFallback
    \/ ObjAnalyze
    \/ ObjExport

SpecBatch == InitBatch /\ [][NextBatch]_vars

----------------------------------------------------------------------------
(* The scripts that end with sys.exit(0 if success else 1):
   convert_blend_to_glb.py, verify_glb.py and inspect_blend.py *)

MainScripts == {"convert_blend_to_glb", "verify_glb", "inspect_blend"}

InitMain ==
    /\ WalkInit
    /\ arg = <<>>
    /\ out = <<>>
    /\ script \in MainScripts
    /\ inputs = <<>>
    /\ pc = "main"
    /\ fidx = 0
    /\ loc = NoLocals
    /\ written = <<>>
    /\ stdout = <<>>
    /\ attempts = <<>>

\* main of each of the three scripts: with nothing after "--" the usage is
\* printed and False returned, else the function is called with the name
Main ==
    /\ pc = "main"
    /\ \/ /\ stdout' = Append(stdout, Line("Usage", <<>>, 0))
          /\ Return(FALSE)
       \/ /\ pc' = script
          /\ UNCHANGED <<ret, stdout>>
    /\ UNCHANGED <<convRest, result, loc, attempts>>

\* verify_glb_file lines 19-32
VerifyStart ==
    /\ pc = "verify_glb"
    /\ \/ /\ pc' = "conv_raised"
          /\ UNCHANGED <<ret, stdout>>
       \/ /\ stdout' = Append(stdout, Line("not found", <<>>, 0))
          /\ Return(FALSE)
       \/ /\ stdout' = Append(stdout, Line("File size", <<>>, 0))
          /\ pc' = "verify_import"
          /\ ret' = ret
    /\ UNCHANGED <<convRest, result, loc, attempts>>

\* lines 34-43: the import finishes, or does not, or raises
VerifyImport ==
    /\ pc = "verify_import"
    /\ attempts' = Append(attempts, Attempt("import_scene.gltf", 1))
    /\ \/ /\ result' = "FINISHED"
          /\ stdout' = Append(stdout, Line("imported successfully", <<>>, 0))
          /\ pc' = "verify_check"
          /\ ret' = ret
       \/ /\ result' = "CANCELLED"
          /\ stdout' = Append(stdout, Line("Failed to import GLB", <<>>, 0))
          /\ Return(FALSE)
       \/ /\ stdout' = Append(stdout, Line("Failed to import GLB", <<>>, 0))
          /\ Return(FALSE)
          /\ UNCHANGED result
    /\ UNCHANGED <<convRest, loc>>

\* lines 45-149: success is an armature and a mesh
VerifyCheck ==
    /\ pc = "verify_check"
    /\ \E armatures \in BOOLEAN, meshes \in BOOLEAN :
        /\ stdout' = stdout
                \o (IF armatures /\ meshes
                    THEN <<Line("verification PASSED", <<>>, 0)>>
                    ELSE <<Line("verification FAILED", <<>>, 0)>>
                         \o (IF armatures THEN <<>>
                             ELSE <<Line("No armatures found", <<>>, 0)>>)
                         \o (IF meshes THEN <<>>
                             ELSE <<Line("No meshes found", <<>>, 0)>>))
        /\ Return(armatures /\ meshes)
    /\ UNCHANGED <<convRest, result, loc, attempts>>

\* inspect_blend_file lines 19-31
InspectStart ==
    /\ pc = "inspect_blend"
    /\ \/ /\ pc' = "conv_raised"
          /\ UNCHANGED <<ret, stdout>>
       \/ /\ stdout' = Append(stdout, Line("not found", <<>>, 0))
          /\ Return(FALSE)
       \/ /\ stdout' = Append(stdout, Line("Loading", <<>>, 0))
          /\ pc' = "inspect_load"
          /\ ret' = ret
    /\ UNCHANGED <<convRest, result, loc, attempts>>

\* lines 33-37
InspectLoad ==
    /\ pc = "inspect_load"
    /\ attempts' = Append(attempts, Attempt("open_mainfile", 1))
    /\ \/ /\ pc' = "inspect_report"
          /\ UNCHANGED <<stdout, ret>>
       \/ /\ stdout' = Append(stdout, Line("Failed to load file", <<>>, 0))
          /\ Return(FALSE)
    /\ UNCHANGED <<convRest, result, loc>>

\* lines 39-170: whatever the scene holds is printed and True returned
InspectReport ==
    /\ pc = "inspect_report"
    /\ \E armatures \in BOOLEAN, meshes \in BOOLEAN :
        stdout' = stdout
            \o (IF armatures THEN <<>>
                ELSE <<Line("No armatures found", <<>>, 0)>>)
            \o (IF meshes THEN <<>> ELSE <<Line("No meshes found", <<>>, 0)>>)
            \o <<Line(IF armatures /\ meshes THEN "ready for export"
                      ELSE "may need additional setup", <<>>, 0)>>
    /\ Return(TRUE)
    /\ UNCHANGED <<convRest, result, loc, attempts>>

\* the __main__ block of the three scripts with the status the wrong way round
SysExit_inverted ==
    /\ pc = "conv_done"
    /\ script \in MainScripts
    /\ loc' = [loc EXCEPT !.exit_status = IF ret THEN 1 ELSE 0]
    /\ pc' = "exited"
    /\ UNCHANGED <<convRest, result, ret, stdout, attempts>>

\* the __main__ block of the three scripts: sys.exit(0 if success else 1)
SysExit ==
    /\ pc = "conv_done"
    /\ script \in MainScripts
    /\ loc' = [loc EXCEPT !.exit_status = IF ret THEN 0 ELSE 1]
    /\ pc' = "exited"
    /\ UNCHANGED <<convRest, result, ret, stdout, attempts>>

\* an exception leaves main: sys.exit is not reached, and the status is
\* what the host makes of an exception in a script, 1 under the plain
\* interpreter and 0 under the host tool unless it is told otherwise
HostExit ==
    /\ pc = "conv_raised"
    /\ script \in MainScripts
    /\ \E status \in {0, 1} : loc' = [loc EXCEPT !.exit_status = status]
    /\ pc' = "aborted"
    /\ UNCHANGED <<convRest, result, ret, stdout, attempts>>

NextMain ==
    \/ Main
    \/ VerifyStart
    \/ VerifyImport
    \/ VerifyCheck
    \/ InspectStart
    \/ InspectLoad
    \/ InspectReport
    \/ SysExit
    \/ HostExit

\* a run of any of the scripts
InitScripts == Init \/ InitSlice \/ InitConvert \/ InitMain

NextScripts == Next \/ NextSlice \/ NextConvert \/ NextMain

SpecScripts == InitScripts /\ [][NextScripts]_vars


----------------------------------------------------------------------------
(* Properties of the 3D scripts and of all scripts *)

\* the function has returned v
Returned(v) == pc \in {"done", "conv_done"} /\ ret = v

\* the function has ended, by a return or by an exception
RunEnded == pc \in {"done", "raised", "conv_done", "conv_raised"}

\* the export of the main output was called
MainExportTried ==
    \E a \in 1..Len(attempts) : attempts[a] = Attempt("export_scene.gltf", 1)

\* the export of the main output was called and did not finish
MainExportFailed ==
    /\ MainExportTried
    /\ IF script = "none" THEN result # "FINISHED"
       ELSE loc.main_export # "FINISHED"

\* C19: in create_walking_animation, export_stickman, convert_blend_to_glb
\* and convert_obj_to_glb, whenever the GLB export of the main output does
\* not finish (it raises, or its result is not FINISHED), the function
\* returns False.
C19_FailedExportReturnsFalse ==
    (script \in {"none"} \cup ConverterScripts /\ RunEnded /\ MainExportFailed)
        => Returned(FALSE)


\* the kind of step that a call belongs to: the two OBJ importers are the
\* same step, the exports of different outputs are different steps
StepKind(step) ==
    CASE step \in {"wm.obj_import", "import_scene.obj"} -> "import"
      [] step = "open_mainfile" -> "load"
      [] OTHER -> step

\* the calls of one kind of step on one input
Calls(kind, n) ==
    {a \in 1..Len(attempts) :
        StepKind(attempts[a].step) = kind /\ attempts[a].input = n}

StepKinds == {StepKind(attempts[a].step) : a \in 1..Len(attempts)}

StepInputs == {attempts[a].input : a \in 1..Len(attempts)}

\* C20 as stated: in every script and for every input, each load, import,
\* export and open step is attempted at most once in a run.
C20_AtMostOnce ==
    \A kind \in StepKinds : \A n \in StepInputs :
        Cardinality(Calls(kind, n)) <= 1

\* C20: in every script and for every input, each load, export, save and
\* open step is attempted at most once in a run, and so is each import but
\* the OBJ import of convert_obj_to_glb: after wm.obj_import has failed, the
\* old importer import_scene.obj is called once on the same file, so that an
\* import is attempted at most twice, and never again after the second
\* failure.
C20_OnlyTheObjFallback ==
    \A kind \in StepKinds : \A n \in StepInputs :
        \/ Cardinality(Calls(kind, n)) <= 1
        \/ /\ script = "convert_obj_to_glb"
           /\ kind = "import"
           /\ \E a \in 1..(Len(attempts) - 1) :
                /\ Calls(kind, n) = {a, a + 1}
                /\ attempts[a].step = "wm.obj_import"
                /\ attempts[a + 1].step = "import_scene.obj"
                /\ \E m \in 1..Len(stdout) :
                    stdout[m].tag = "Failed to load OBJ file"

\* both importers have failed on the OBJ file and the function returned False
C20_Witness ==
    /\ script = "convert_obj_to_glb"
    /\ pc = "conv_done"
    /\ ret = FALSE
    /\ attempts = <<Attempt("wm.obj_import", 1), Attempt("import_scene.obj", 1)>>

----------------------------------------------------------------------------
(* Exit status of the scripts that call sys.exit *)

Said(tag) == \E k \in 1..Len(stdout) : stdout[k].tag = tag

Exited == script \in MainScripts /\ pc = "exited"

Aborted == script \in MainScripts /\ pc = "aborted"

\* the lines the three scripts print when they give up: no argument, a
\* missing file, a failed load or import, a failed main export
GaveUp ==
    \/ Said("Usage")
    \/ Said("not found")
    \/ Said("Failed to load file")
    \/ Said("Failed to import GLB")
    \/ Said("Export failed")

NoMeshFound == Said("No mesh objects") \/ Said("No meshes found")

\* C21 as stated: the process exits 0 exactly when main returned True, and
\* exits 1 on every failure, a scene without a mesh included, in all three
\* scripts
C21_ExitOneOnEveryFailure ==
    Exited =>
        /\ loc.exit_status = 0 <=> ret
        /\ GaveUp \/ NoMeshFound => loc.exit_status = 1

\* C21: whenever main returns, the process exits 0 if it returned True and
\* 1 if it returned False; main returns False, so the exit is 1, with no
\* argument (usage printed, nothing loaded), a missing file, a failed load
\* or import, a failed main export, no mesh in convert_blend_to_glb, and no
\* mesh or no armature in verify_glb; inspect_blend returns True, so the
\* exit is 0, whenever the file loads, also without a mesh; an exception
\* that leaves main does not pass through sys.exit
C21_ExitStatusFollowsMain ==
    /\ Exited =>
        /\ loc.exit_status = (IF ret THEN 0 ELSE 1)
        /\ GaveUp => loc.exit_status = 1
        /\ Said("Usage") => attempts = <<>> /\ Len(stdout) = 1
        /\ script # "inspect_blend" /\ NoMeshFound => loc.exit_status = 1
        /\ script = "verify_glb" /\ Said("No armatures found")
            => loc.exit_status = 1
        /\ script = "inspect_blend" /\ ~GaveUp => loc.exit_status = 0
    /\ Aborted => ret = Unset

\* convert_blend_to_glb has exited 1 after its main export failed, or
\* verify_glb after an import that showed no mesh
C21_Witness ==
    /\ Exited
    /\ loc.exit_status = 1
    /\ \/ script = "convert_blend_to_glb" /\ loc.main_export = "CANCELLED"
       \/ script = "verify_glb" /\ Said("No meshes found")

----------------------------------------------------------------------------
(* Properties of the command lines *)

DryRun == script = "process_textures" /\ inputs.dry_run

ListEnemies == script = "process_pixel_adventure_2" /\ inputs.list_enemies

\* nothing was opened, no file written, no directory made
NothingWritten == attempts = <<>> /\ written = <<>> /\ loc.made = {}

\* C22 as stated: with --dry-run process_textures.main never calls
\* split_texture_image and makes no tile and no directory; with
\* --list-enemies process_pixel_adventure_2.main makes no directory and no
\* frame and returns 0
C22_NothingWrittenAndZero ==
    /\ DryRun => NothingWritten
    /\ ListEnemies =>
        /\ NothingWritten
        /\ pc = "exited" => loc.exit_status = 0

\* C22: with --dry-run process_textures.main never calls
\* split_texture_image and makes no tile file and no 'individual' directory;
\* with --list-enemies process_pixel_adventure_2.main makes no output
\* directory and no frame file, and returns 0 when the input directory
\* exists and 1 when it does not
C22_InspectionWritesNothing ==
    /\ DryRun =>
        /\ NothingWritten
        /\ pc \in {"main", "tex_main_loop", "exited"}
        /\ ~Said("Saved")
    /\ ListEnemies =>
        /\ NothingWritten
        /\ pc \in {"main", "exited"}
        /\ pc = "exited" =>
            loc.exit_status = (IF inputs.root_exists THEN 0 ELSE 1)

\* a dry run has ended after it listed a material directory with a sheet
\* that the same command without --dry-run slices
C22_Witness ==
    /\ DryRun
    /\ pc = "exited"
    /\ loc.exit_status = 0
    /\ \E k \in 1..Len(stdout) :
          stdout[k].tag = "Found" /\ stdout[k].n = 1
    /\ \E k \in 1..Len(loc.dirs) :
          loc.dirs[k].files = <<GoodFile(TextureNames[1], 13, 9)>>

----------------------------------------------------------------------------
(* The feet and thighs over the gait cycle *)

Feet == {"Left Foot", "Right Foot"}

\* the cycle position printed for the sample frame of a keyframe
KeyPhase(k) ==
    printed[CHOOSE n \in 1..Len(printed) : printed[n][1] = keys[k].frame][2]

\* the phase a foot tests: cycle_pos for the left foot (line 200),
\* offset_cycle for the right foot (line 229)
FootPhase(r, p) == IF r = "Left Foot" THEN p ELSE (p + 500) % Scale

\* lines 200 and 231: the swing branch of a foot
FootSwings(r, p) == 400 <= FootPhase(r, p) /\ FootPhase(r, p) < 900

\* the keyframes of a foot on one data path that its support branch set
SupportKeys(r, path) ==
    {k \in KeyIdx : /\ keys[k].bone = roleBone[r]
                    /\ keys[k].data_path = path
                    /\ ~FootSwings(r, KeyPhase(k))}

ThighSwings(r, p) ==
    IF r = "Left Leg" THEN 500 <= p /\ p < 1000 ELSE 0 <= p /\ p < 500

\* C24: at every phase exactly one of the two thighs and exactly one of the
\* two feet is in its swing branch; a thigh in support is rotated backward
\* and one that swings is not; the foot in support is at height 0, so at
\* least one foot is on the ground; and the height of a foot lies in
\* [0, 0.4].
C24_ComplementaryHalves ==
    pc = "phased" =>
        /\ ThighSwings("Left Leg", arg) # ThighSwings("Right Leg", arg)
        /\ FootSwings("Left Foot", arg) # FootSwings("Right Foot", arg)
        /\ out.left_leg.rotation_euler[1] > 0 <=> ~ThighSwings("Left Leg", arg)
        /\ out.right_leg.rotation_euler[1] > 0
            <=> ~ThighSwings("Right Leg", arg)
        /\ ~FootSwings("Left Foot", arg) => out.left_foot.location[3] = 0
        /\ ~FootSwings("Right Foot", arg) => out.right_foot.location[3] = 0
        /\ out.left_foot.location[3] = 0 \/ out.right_foot.location[3] = 0
        /\ out.left_foot.location[3] \in 0..400
        /\ out.right_foot.location[3] \in 0..400

\* phase 0.55: the left foot is at full height and its thigh swings, the
\* right foot is on the ground and its thigh in support
C24_Witness ==
    /\ pc = "phased"
    /\ arg = 550
    /\ out.left_foot.location[3] = 400
    /\ out.right_foot.location[3] = 0
    /\ out.left_leg.rotation_euler[1] < 0
    /\ out.right_leg.rotation_euler[1] > 0


\* C26 as stated: once the file is loaded and an armature found,
\* export_stickman reads no variable that was not assigned on the path
\* taken, whatever actions the file has: the scene that the idle export
\* uses is bound when that branch runs
C26_SceneIsBound ==
    (script = "export_stickman" /\ Said("Found armature")) =>
        loc.error # "NameError"
----------------------------------------------------------------------------
(* convert-sprites.py: main and convert_white_to_transparent *)

\* str.startswith(prefix)
startswith(s, prefix) ==
    /\ Len(s) >= Len(prefix)
    /\ SubSeq(s, 1, Len(prefix)) = prefix

\* str.replace(old, new): every occurrence, from the left
RECURSIVE replace(_, _, _)
replace(s, old, new) ==
    IF Len(s) < Len(old) THEN s
    ELSE IF startswith(s, old)
         THEN new \o replace(SubSeq(s, Len(old) + 1, Len(s)), old, new)
         ELSE <<s[1]>> \o replace(Tail(s), old, new)

DotGif == <<".", "g", "i", "f">>

\* names that the pattern *.gif finds in the sprite directory
GifNames ==
    {<<"h", "e", "r", "o", ".", "g", "i", "f">>,
     <<"o", "r", "c", ".", "g", "i", "f">>,
     <<"h", "o", "u", "s", "e", "1", ".", "g", "i", "f">>,
     <<"b", "a", "c", "k", "g", "r", "o", "u", "n", "d", ".", "g", "i", "f">>}

\* a file as it is, one that Image.open rejects, one whose save raises
GifFiles ==
    UNION {{f, [f EXCEPT !.openable = FALSE], [f EXCEPT !.save_fail_at = 1]} :
              f \in {GoodFile(n, 2, 2) : n \in GifNames}}

InitSprites ==
    /\ WalkInit
    /\ arg = <<>>
    /\ out = <<>>
    /\ script = "convert-sprites"
    /\ inputs \in [dir : {"last-guardian-sprites"}, files : Roots(GifFiles)]
    /\ pc = "convert_sprites"
    /\ fidx = 0
    /\ loc = NoLocals
    /\ written = <<>>
    /\ stdout = <<>>
    /\ attempts = <<>>

\* main lines 56-73
CsMain ==
    /\ pc = "convert_sprites"
    /\ loc' = [loc EXCEPT !.made = @ \cup {Directory(inputs.dir, <<"png">>)},
                          !.count = 0]
    /\ IF inputs.files = <<>>
       THEN /\ stdout' = Append(stdout, Line("No .gif files found", <<>>, 0))
            /\ pc' = "cs_returned"
            /\ fidx' = fidx
       ELSE /\ stdout' = Append(stdout,
                                Line("Found", <<>>, Len(inputs.files)))
            /\ fidx' = 1
            /\ pc' = "cs_file"
    /\ UNCHANGED <<walkVars, arg, out, script, inputs, written, attempts>>

\* one pass of the loop of lines 76-88, with convert_white_to_transparent
\* (lines 20-51) for a file that is not skipped, and lines 90-92 after the
\* last file
CsFile ==
    /\ pc = "cs_file"
    /\ IF fidx > Len(inputs.files)
       THEN /\ stdout' = Append(stdout,
                                Line("Processing complete", <<>>, loc.count))
            /\ pc' = "cs_returned"
            /\ UNCHANGED <<fidx, loc, written, attempts>>
       ELSE LET gif_file == inputs.files[fidx]
                filename == gif_file.name
                output_filename == replace(filename, DotGif, DotPng)
                saved == gif_file.openable /\ gif_file.save_fail_at # 1
            IN /\ fidx' = fidx + 1
               /\ pc' = "cs_file"
               /\ IF \/ startswith(filename, <<"h", "o", "u", "s", "e">>)
                     \/ startswith(filename, <<"b", "a", "c", "k">>)
                  THEN /\ stdout' = Append(stdout,
                                           Line("Skipping", filename, 0))
                       /\ UNCHANGED <<loc, written, attempts>>
                  ELSE /\ attempts' = Append(attempts, Attempt("open", fidx))
                       /\ written' =
                            IF saved
                            THEN Append(written,
                                   Output(filename, inputs.dir, <<"png">>,
                                          output_filename, <<>>))
                            ELSE written
                       /\ stdout' = Append(stdout,
                            Line(IF saved THEN "Converted" ELSE "Error",
                                 filename, 0))
                       /\ loc' = [loc EXCEPT !.count = @ + 1]
    /\ UNCHANGED <<walkVars, arg, out, script, inputs>>

NextSprites == CsMain \/ CsFile

SpecSprites == InitSprites /\ [][NextSprites]_vars

\* C27 as stated: the number in 'Converted N sprite files' is the number of
\* .gif files for which a PNG was written: a file whose name starts with
\* 'house' or 'back' is neither converted nor counted, and a file whose
\* conversion fails is not counted
C27_CountIsWritten ==
    (script = "convert-sprites" /\ pc = "cs_returned"
        /\ Said("Processing complete")) =>
        /\ loc.count = Len(written)
        /\ stdout[Len(stdout)].n = Len(written)


\* the frames written for a sheet of an enemy
FramesOf(enemy, name) ==
    SelectSeq(written, LAMBDA o : o.dir = enemy /\ o.src = name)

\* C28 as stated: in process_pixel_adventure_2 the failure of one sheet
\* stays with that sheet: main returns a status and does not raise, with
\* and without --enemy, and when it has returned every sheet that can be
\* sliced, in every enemy directory it was to process, has all its frames
C28_SheetFailureIsLocal ==
    (script = "process_pixel_adventure_2" /\ ~inputs.list_enemies) =>
        /\ pc # "aborted"
        /\ pc = "exited" =>
            \A d \in 1..Len(loc.dirs) :
                LET png_files == PngFiles(loc.dirs[d].files)
                IN \A k \in 1..Len(png_files) :
                      Sliced(png_files[k]) =>
                          Len(FramesOf(loc.dirs[d].name, png_files[k].name))
                            = TileCount(png_files[k])
----------------------------------------------------------------------------
(* What the slicers report and where they write *)

\* C25 as stated: split_texture_image returns the number of tile files it
\* wrote for the image, whatever the open and the saves do, and the total
\* that process_material_directory prints is the number of files made
C25_ReturnedIsWritten ==
    script = "process_textures" =>
        /\ (pc = "tex_file" /\ fidx > 1) =>
              loc.returned = Len(TilesOf(loc.png_files[fidx - 1].name))
        /\ (pc = "tex_returned" /\ Said("Completed")) =>
              /\ loc.total = Len(written)
              /\ \E k \in 1..Len(stdout) :
                    stdout[k].tag = "Completed" /\ stdout[k].n = Len(written)


\* where a written file went
OutputPath(o) == <<o.dir, o.sub, o.file>>

\* C30 as stated: within a run of process_textures on a material directory
\* or of process_pixel_adventure_2 on an enemy directory no two tiles or
\* frames are written to the same path, whatever files the directory holds
C30_OutputPathsInjective ==
    (script \in {"process_textures", "process_pixel_adventure_2"}
        /\ SliceEnded) =>
        \A a \in 1..Len(written) : \A b \in 1..Len(written) :
            a # b => OutputPath(written[a]) # OutputPath(written[b])
----------------------------------------------------------------------------
(* Properties of the batch conversion *)

Batch == script = "batch_convert_kenney_models"

\* the files whose conversion has begun, in the order of the calls
Converting ==
    LET calls == SelectSeq(stdout, LAMBDA l : l.tag = "CONVERTING")
    IN [k \in 1..Len(calls) |-> calls[k].file]

\* the conversions that returned True: each prints this line once
Successes ==
    Len(SelectSeq(stdout, LAMBDA l : l.tag = "Successfully exported"))

\* the names of the files in the order of the loop
LoopNames == [k \in 1..Len(loc.dirs) |-> loc.dirs[k].name]

\* the batch is over: it returned, or an exception left it
BatchEnded == Batch /\ pc \in {"batch_returned", "conv_raised"}

\* every GLB written holds the objects of its own file and no others
OwnObjectsOnly ==
    \A n \in 1..Len(written) :
        \E k \in 1..Len(loc.dirs) :
            /\ written[n].src = loc.dirs[k].name
            /\ written[n].box = {k}

\* C29 as stated: every OBJ file is attempted exactly once in sorted order
\* whatever happened to the files before it, each GLB holds only the
\* objects of its own file, success_count is the number of conversions
\* that returned True, and the function returns True exactly when every
\* file converted
C29_EveryFileWhateverFailed ==
    (BatchEnded /\ inputs.files # <<>>) =>
        /\ Converting = LoopNames
        /\ OwnObjectsOnly
        /\ loc.count = Successes
        /\ pc = "batch_returned"
        /\ ret <=> (Successes = Len(loc.dirs))

\* C29: the loop takes the files in sorted order, each at most once, and a
\* conversion that returns False does not stop it: when the function
\* returns, every file was attempted exactly once; an exception that
\* leaves convert_obj_to_glb ends the batch at that file without a return
\* value.  Every conversion starts from the scene emptied by clear_scene,
\* so each GLB holds only the objects of its own file; success_count is
\* the number of conversions that returned True; and the function returns
\* True exactly when all of them did.
C29_BatchConversion ==
    Batch =>
        /\ \A k \in 1..(Len(loc.dirs) - 1) :
              LessText(LoopNames[k], LoopNames[k + 1])
        /\ {LoopNames[k] : k \in 1..Len(loc.dirs)} \subseteq
              {inputs.files[k].name : k \in 1..Len(inputs.files)}
        /\ pc # "batch" /\ inputs.files # <<>> =>
              Len(loc.dirs) = Len(inputs.files)
        /\ Len(Converting) <= Len(loc.dirs)
        /\ Converting = SubSeq(LoopNames, 1, Len(Converting))
        /\ OwnObjectsOnly
        /\ pc = "batch_file" => loc.count = Successes
        /\ (pc = "batch_returned" /\ inputs.files # <<>>) =>
              /\ Converting = LoopNames
              /\ loc.count = Successes
              /\ ret <=> (Successes = Len(loc.dirs))
        /\ pc = "conv_raised" => Len(Converting) = fidx

\* the first file was imported and had no mesh, so its conversion returned
\* False with its objects in the scene; the second file was converted and
\* its GLB holds its own objects only; the batch returned False
C29_Witness ==
    /\ Batch
    /\ pc = "batch_returned"
    /\ Len(loc.dirs) = 2
    /\ stdout[5].tag = "No mesh objects"
    /\ Len(written) = 1
    /\ written[1].src = loc.dirs[2].name
    /\ written[1].box = {2}
    /\ loc.count = 1
    /\ ret = FALSE

====
